---- MODULE Spec2Model ----
(***************************************************************************)
(* Model of the asset synchronisation core of siyuan-share:                *)
(*   - AssetRecordManager  (src/src/services/asset-record.ts), the index   *)
(*     of document -> uploaded assets and its persisted copy;              *)
(*   - S3UploadService     (src/unnamed/part_003), uploadFile, uploadFiles,*)
(*     performUpload and the forwardProxy relay;                           *)
(*   - ShareService        (src/src/services/share-service.ts),            *)
(*     createShare and processAndUploadAssets.                             *)
(* Strings are sequences of string tokens, concatenated with \o.           *)
(***************************************************************************)
EXTENDS Integers, Sequences, FiniteSets, TLC

VARIABLES
    mappings,       \* AssetRecordManager.mappings: Map in insertion order
    persisted,      \* data stored under STORAGE_KEY by plugin.saveData
    now,            \* reading of Date.now()
    lastOp,         \* history: the last index operation, its arguments and result
    settings,       \* plugin.settings.getConfig() and window.sharePlugin token
    pc,             \* position of createShare
    doc,            \* options.docId of the running createShare
    paths,          \* extractAssetPaths(content)
    idx,            \* position of the loop over assetPaths
    onProg,         \* whether an onUploadProgress callback was passed
    uploadedAssets, \* processAndUploadAssets.uploadedAssets
    filesToUpload,  \* processAndUploadAssets.filesToUpload
    fidx,           \* position of the loop of uploadFiles
    cur,            \* locals of the running uploadFile / performUpload
    results,        \* uploadFiles.results
    errors,         \* uploadFiles.errors
    events,         \* history: progress events delivered to the callback
    calls,          \* history: network calls and their answers, per local path
    shown,          \* history: error lists displayed with showMessage
    shareId,        \* shareData.shareId answered to the running createShare
    publishes,      \* number of createShare calls started
    ipc,            \* position of each caller of an index operation
    saves,          \* plugin.saveData calls awaited by each caller: the data passed
    delKeys,        \* deleteFiles: s3Keys
    didx,           \* deleteFiles: position of the loop over s3Keys
    success,        \* deleteFiles: success
    failed,         \* deleteFiles: failed
    answers,        \* history: what the remote answered to each DELETE
    callLog,        \* history: calls of the signer and of the hasher, with results
    docContent,     \* processAndUploadAssets: content, the exported Markdown
    processedContent, \* processAndUploadAssets: processedContent
    shareRecords,   \* ShareRecordManager: the share ids of the local share records
    publishers,     \* concurrent createShare calls: position, document, uploadedAssets
    users,          \* backend table users: is_active of each user
    userTokens,     \* backend table user_tokens: rows in order of creation
    sessions,       \* session JWTs issued at login
    handlers,       \* backend requests in flight: position and locals of each
    served,         \* history: the last response of the backend
    revokedIds,     \* history: ids of the tokens RevokeToken answered 200 for
    issued          \* number of plaintexts randomToken(32) has produced

idxVars == <<mappings, persisted, lastOp>>
pubVars == <<settings, pc, doc, paths, idx, onProg, uploadedAssets, filesToUpload,
             fidx, cur, results, errors, events, calls, shown, shareId, publishes>>
saveVars == <<ipc, saves>>
delVars == <<delKeys, didx, success, failed, answers>>
docVars == <<docContent, processedContent>>
recVars == <<shareRecords>>
raceVars == <<publishers>>
authVars == <<users, userTokens, sessions, handlers, served, revokedIds, issued>>
sideVars == <<saveVars, delVars, callLog, docVars, recVars, raceVars, authVars>>
vars == <<mappings, persisted, now, lastOp, settings, pc, doc, paths, idx, onProg,
          uploadedAssets, filesToUpload, fidx, cur, results, errors, events, calls,
          shown, shareId, publishes, ipc, saves, delKeys, didx, success, failed,
          answers, callLog, docContent, processedContent, shareRecords, publishers,
          users, userTokens, sessions, handlers, served, revokedIds, issued>>

----------------------------------------------------------------------------
(* Bounds *)

MaxClock == 1
MaxAssets == 2
MaxPublishes == 1
MaxProgress == 1
MaxFiles == 3
MaxKeys == 3
MaxCalls == 2
MaxIssued == 2

Clock == 0..MaxClock
DocIds == {"d1", "d2"}
ShareIds == {"s1", "s2"}

----------------------------------------------------------------------------
(* Strings *)

\* s.lastIndexOf(ch), 0-based, -1 when absent
lastIndexOf(s, ch) ==
    IF \E i \in 1..Len(s) : s[i] = ch
    THEN (CHOOSE i \in 1..Len(s) : s[i] = ch /\ \A j \in (i+1)..Len(s) : s[j] # ch) - 1
    ELSE -1

\* s.substring(from), 0-based
substringFrom(s, from) == SubSeq(s, from + 1, Len(s))

\* assetPath.split('/').pop() || 'asset'
FileNameOf(path) ==
    LET seg == substringFrom(path, lastIndexOf(path, "/") + 1)
    IN  IF seg = <<>> THEN <<"asset">> ELSE seg

getFileExtension(filename) ==
    LET lastDot == lastIndexOf(filename, ".")
    IN  IF lastDot > 0 THEN substringFrom(filename, lastDot) ELSE <<>>

guessContentType(filename) ==
    LET ext == getFileExtension(filename)
    IN  IF ext = <<".", "png">> THEN "image/png"
        ELSE IF ext = <<".", "txt">> THEN "text/plain"
        ELSE "application/octet-stream"

\* endpoint.replace(/^https?:\/\//, '')
StripProtocol(endpoint) ==
    IF endpoint # <<>> /\ Head(endpoint) \in {"http://", "https://"}
    THEN Tail(endpoint) ELSE endpoint

\* customDomain.replace(/\/$/, '')
StripTrailingSlash(s) ==
    IF s # <<>> /\ s[Len(s)] = "/" THEN SubSeq(s, 1, Len(s) - 1) ELSE s

----------------------------------------------------------------------------
(* Hasher *)

Contents == {"c1", "c2"}

\* crypto.subtle.digest('SHA-256', buffer) as hex, in two chunks of 16 and 48
\* characters; c1 and c2 agree on the first chunk only
Sha256Hex(content) ==
    IF content = "c1" THEN <<"9f86d081884c7d65", "x1">>
    ELSE IF content = "c2" THEN <<"9f86d081884c7d65", "x2">>
    ELSE <<"60303ae22b998861", "x3">>

ByteLength(content) == IF content = "c1" THEN 1 ELSE 2

calculateFileHashOfName(file) == Sha256Hex(file.name)[1]

\* hashHex.substring(0, 16)
calculateFileHash(file) == Sha256Hex(file.content)[1]

----------------------------------------------------------------------------
(* Configuration *)

BaseS3 == [enabled |-> TRUE, endpoint |-> <<"s3.example.com">>, region |-> "us-east-1",
           bucket |-> <<"b">>, accessKeyId |-> "AK", secretAccessKey |-> "SK",
           customDomain |-> <<>>, pathPrefix |-> <<>>, provider |-> "aws"]

BaseSettings == [serverUrl |-> "srv", apiToken |-> "tok", siyuanToken |-> "kt",
                 windowToken |-> "kt", s3 |-> BaseS3]

Settings ==
    { BaseSettings,
      [BaseSettings EXCEPT !.s3.customDomain = <<"https://cdn.example.com", "/">>,
                           !.s3.endpoint = <<"https://", "s3.example.com">>,
                           !.s3.pathPrefix = <<"p">>],
      [BaseSettings EXCEPT !.windowToken = ""],
      [BaseSettings EXCEPT !.s3.bucket = <<>>],
      [BaseSettings EXCEPT !.s3.enabled = FALSE],
      [BaseSettings EXCEPT !.apiToken = ""] }

validateConfigNoBucket(c) ==
    /\ c.enabled
    /\ c.endpoint # <<>>
    /\ c.region # ""
    /\ c.accessKeyId # ""
    /\ c.secretAccessKey # ""

validateConfig(c) ==
    /\ c.enabled
    /\ c.endpoint # <<>>
    /\ c.region # ""
    /\ c.bucket # <<>>
    /\ c.accessKeyId # ""
    /\ c.secretAccessKey # ""

\* `${pathPrefix || 'siyuan-share'}/${timestamp}-${hash}${ext}`
S3Key(c, timestamp, hash, ext) ==
    (IF c.pathPrefix # <<>> THEN c.pathPrefix ELSE <<"siyuan-share">>)
        \o <<"/", ToString(timestamp), "-", hash>> \o ext

\* `https://${bucket}.${endpoint}/${s3Key}`
ObjectUrl(c, s3Key) ==
    <<"https://">> \o c.bucket \o <<".">> \o StripProtocol(c.endpoint) \o <<"/">> \o s3Key

\* performUpload, 'load' listener with a 2xx status: the resolved URL
DirectResultUrl(c, s3Key) ==
    IF c.customDomain # <<>>
    THEN StripTrailingSlash(c.customDomain) \o <<"/">> \o s3Key
    ELSE ObjectUrl(c, s3Key)

RelayResultUrlNoDomain(c, s3Key) == ObjectUrl(c, s3Key)

\* uploadViaForwardProxy: the returned URL
RelayResultUrl(c, s3Key) ==
    IF c.customDomain # <<>>
    THEN StripTrailingSlash(c.customDomain) \o <<"/">> \o s3Key
    ELSE ObjectUrl(c, s3Key)

----------------------------------------------------------------------------
(* Files and asset records *)

\* local asset paths referenced by documents
LocalPaths == { <<"assets", "/", "a", ".", "png">>, <<"assets", "/", ".", "b">> }

\* the i-th file handed to uploadFiles directly
BatchPath(i) == <<"assets", "/", "f", ToString(i), ".", "png">>

BatchPaths == { BatchPath(i) : i \in 1..MaxFiles }

AllPaths == LocalPaths \cup BatchPaths

FileTypes == {""}

\* fetchAssetFile: new File([blob], filename, { type: blob.type })
MkFile(path, content, type) ==
    [name |-> FileNameOf(path), content |-> content,
     size |-> ByteLength(content), type |-> type]

\* uploadFile: the returned record
MkRecord(localPath, file, s3Key, s3Url, hash, timestamp) ==
    [localPath |-> localPath, s3Key |-> s3Key, s3Url |-> s3Url,
     contentType |-> IF file.type # "" THEN file.type ELSE guessContentType(file.name),
     size |-> file.size, hash |-> hash, uploadedAt |-> timestamp]

\* the record a successful direct upload of (path, content) at time t yields
UploadedRecord(c, path, content, t) ==
    LET file == MkFile(path, content, "")
        hash == calculateFileHash(file)
        key  == S3Key(c, t, hash, getFileExtension(file.name))
    IN  MkRecord(path, file, key, DirectResultUrl(c, key), hash, t)

NoAsset == [none |-> TRUE]
NoMapping == [none |-> TRUE]

----------------------------------------------------------------------------
(* AssetRecordManager: the Map of mappings, in insertion order *)

FirstIdx(s, P(_)) ==
    IF \E i \in 1..Len(s) : P(s[i])
    THEN CHOOSE i \in 1..Len(s) : P(s[i]) /\ \A j \in 1..(i-1) : ~P(s[j])
    ELSE 0

MapHas(m, docId) == \E i \in 1..Len(m) : m[i].docId = docId

\* Map.set: an existing key keeps its position
MapSet(m, mapping) ==
    LET i == FirstIdx(m, LAMBDA x : x.docId = mapping.docId)
    IN  IF i = 0 THEN Append(m, mapping) ELSE [m EXCEPT ![i] = mapping]

MapDelete(m, docId) == SelectSeq(m, LAMBDA x : x.docId # docId)

getMapping(m, docId) ==
    LET i == FirstIdx(m, LAMBDA x : x.docId = docId)
    IN  IF i = 0 THEN NoMapping ELSE m[i]

findAssetByLocalPath(m, localPath) ==
    LET Holds(mp) == \E k \in 1..Len(mp.assets) : mp.assets[k].localPath = localPath
        mi == FirstIdx(m, Holds)
    IN  IF mi = 0 THEN NoAsset
        ELSE m[mi].assets[FirstIdx(m[mi].assets, LAMBDA a : a.localPath = localPath)]

findAssetByHash(m, hash) ==
    LET Holds(mp) == \E k \in 1..Len(mp.assets) : mp.assets[k].hash = hash
        mi == FirstIdx(m, Holds)
    IN  IF mi = 0 THEN NoAsset
        ELSE m[mi].assets[FirstIdx(m[mi].assets, LAMBDA a : a.hash = hash)]

LoadIntoAppending(m, data) == m \o data

\* load: data.forEach(mapping => this.mappings.set(mapping.docId, mapping))
RECURSIVE LoadInto(_, _)
LoadInto(m, data) ==
    IF data = <<>> THEN m ELSE LoadInto(MapSet(m, Head(data)), Tail(data))

\* addOrUpdateMapping, the Map after the call
Upsert(m, docId, sid, assets, t) ==
    IF MapHas(m, docId)
    THEN MapSet(m, [getMapping(m, docId) EXCEPT
                        !.shareId = sid, !.assets = assets, !.updatedAt = t])
    ELSE MapSet(m, [docId |-> docId, shareId |-> sid, assets |-> assets,
                    createdAt |-> t, updatedAt |-> t])

DeleteAllOnShare(m, sid) ==
    IF \E i \in 1..Len(m) : m[i].shareId = sid THEN <<>> ELSE m

\* removeMappingByShareId, the Map after the loop
DeleteByShare(m, sid) == SelectSeq(m, LAMBDA x : x.shareId # sid)

\* removeAssetFromDoc, the Map after the call (mapping present, asset found)
WithoutAsset(m, docId, s3Key, t) ==
    LET mp   == getMapping(m, docId)
        kept == SelectSeq(mp.assets, LAMBDA a : a.s3Key # s3Key)
    IN  IF kept = <<>> THEN MapDelete(m, docId)
        ELSE MapSet(m, [mp EXCEPT !.assets = kept, !.updatedAt = t])

RECURSIVE WithoutKeysKeepEmpty(_, _, _)
WithoutKeysKeepEmpty(m, keySet, t) ==
    IF m = <<>> THEN <<>>
    ELSE LET mp   == Head(m)
             kept == SelectSeq(mp.assets, LAMBDA a : a.s3Key \notin keySet)
             rest == WithoutKeysKeepEmpty(Tail(m), keySet, t)
         IN  IF Len(kept) < Len(mp.assets)
             THEN <<[mp EXCEPT !.assets = kept, !.updatedAt = t]>> \o rest
             ELSE <<mp>> \o rest

WithoutKeysTouchingAll(m, keySet, t) ==
    LET kept(mp) == SelectSeq(mp.assets, LAMBDA a : a.s3Key \notin keySet)
        live == SelectSeq(m, LAMBDA mp : kept(mp) # <<>> \/ mp.assets = <<>>)
    IN  [i \in 1..Len(live) |-> [live[i] EXCEPT !.assets = kept(live[i]), !.updatedAt = t]]

\* removeAssets, the Map after the loop over this.mappings.entries()
RECURSIVE WithoutKeys(_, _, _)
WithoutKeys(m, keySet, t) ==
    IF m = <<>> THEN <<>>
    ELSE LET mp   == Head(m)
             kept == SelectSeq(mp.assets, LAMBDA a : a.s3Key \notin keySet)
             rest == WithoutKeys(Tail(m), keySet, t)
         IN  IF Len(kept) < Len(mp.assets)
             THEN IF kept = <<>> THEN rest
                  ELSE <<[mp EXCEPT !.assets = kept, !.updatedAt = t]>> \o rest
             ELSE <<mp>> \o rest

\* removeAssets, removedCount
RECURSIVE RemovedCount(_, _)
RemovedCount(m, keySet) ==
    IF m = <<>> THEN 0
    ELSE Len(SelectSeq(Head(m).assets, LAMBDA a : a.s3Key \in keySet))
         + RemovedCount(Tail(m), keySet)

\* the filters passed to removeAssetsByFilter
Filters ==
    [kind : {"doc"}, arg : DocIds] \cup [kind : {"path"}, arg : LocalPaths]
        \cup [kind : {"all", "none"}, arg : {""}]

ApplyFilter(f, asset, docId) ==
    CASE f.kind = "doc"  -> docId = f.arg
      [] f.kind = "path" -> asset.localPath = f.arg
      [] f.kind = "all"  -> TRUE
      [] OTHER           -> FALSE

\* removeAssetsByFilter, toRemove
RECURSIVE ToRemove(_, _)
ToRemove(m, f) ==
    IF m = <<>> THEN <<>>
    ELSE LET hit == SelectSeq(Head(m).assets, LAMBDA a : ApplyFilter(f, a, Head(m).docId))
         IN  [i \in 1..Len(hit) |-> hit[i].s3Key] \o ToRemove(Tail(m), f)

Range(s) == { s[i] : i \in 1..Len(s) }

----------------------------------------------------------------------------
(* AssetRecordManager: operations.  Each models the whole method, the      *)
(* trailing save() included.                                               *)

PA == <<"assets", "/", "a", ".", "png">>
PB == <<"assets", "/", ".", "b">>

\* records of earlier uploads, as uploadFile builds them
SampleAssets ==
    { UploadedRecord(BaseS3, PA, "c1", 0),
      UploadedRecord(BaseS3, PB, "c2", 0) }

SampleKeys == { a.s3Key : a \in SampleAssets }

\* lists without a repeated record, of at most MaxAssets records
AssetLists ==
    UNION { { as \in [1..n -> SampleAssets] : \A i, j \in 1..n : as[i] = as[j] => i = j }
            : n \in 0..MaxAssets }

\* data a previous session may have left under STORAGE_KEY
InitPersisted ==
    { <<>>,
      <<[docId |-> "d1", shareId |-> "s1",
         assets |-> <<UploadedRecord(BaseS3, PA, "c1", 0)>>,
         createdAt |-> 0, updatedAt |-> 0]>> }

SaveDataNothing(m) == <<>>

\* save(): Array.from(this.mappings.values())
SaveData(m) == m

Op(name, removed, found) == [op |-> name, removed |-> removed, found |-> found]

NoOp == Op("none", 0, FALSE)

load ==
    /\ mappings' = LoadInto(mappings, persisted)
    /\ lastOp' = Op("load", 0, FALSE)
    /\ UNCHANGED <<persisted, now>>

addOrUpdateMapping(docId, sid, assets) ==
    /\ mappings' = Upsert(mappings, docId, sid, assets, now)
    /\ persisted' = SaveData(mappings')
    /\ lastOp' = Op("addOrUpdateMapping", 0, FALSE)
    /\ UNCHANGED now

removeMapping(docId) ==
    /\ mappings' = MapDelete(mappings, docId)
    /\ persisted' = SaveData(mappings')
    /\ lastOp' = Op("removeMapping", 0, MapHas(mappings, docId))
    /\ UNCHANGED now

removeMappingByShareId(sid) ==
    /\ mappings' = DeleteByShare(mappings, sid)
    /\ persisted' = SaveData(mappings')
    /\ lastOp' = Op("removeMappingByShareId", 0,
                    \E i \in 1..Len(mappings) : mappings[i].shareId = sid)
    /\ UNCHANGED now

clearAll ==
    /\ mappings' = <<>>
    /\ persisted' = SaveData(mappings')
    /\ lastOp' = Op("clearAll", 0, FALSE)
    /\ UNCHANGED now

removeAssetFromDoc(docId, s3Key) ==
    LET mp == getMapping(mappings, docId)
        found == /\ MapHas(mappings, docId)
                 /\ \E k \in 1..Len(mp.assets) : mp.assets[k].s3Key = s3Key
    IN  /\ IF found
           THEN /\ mappings' = WithoutAsset(mappings, docId, s3Key, now)
                /\ persisted' = SaveData(mappings')
           ELSE UNCHANGED <<mappings, persisted>>
        /\ lastOp' = Op("removeAssetFromDoc",
                        IF found THEN 1 ELSE 0, found)
        /\ UNCHANGED now

removeAssets(s3Keys) ==
    LET removedCount == RemovedCount(mappings, s3Keys)
    IN  /\ mappings' = WithoutKeys(mappings, s3Keys, now)
        /\ persisted' = IF removedCount > 0 THEN SaveData(mappings') ELSE persisted
        /\ lastOp' = Op("removeAssets", removedCount, removedCount > 0)
        /\ UNCHANGED now

removeAssetsByFilter(f) ==
    LET toRemove == ToRemove(mappings, f)
        keySet == Range(toRemove)
    IN  /\ IF Len(toRemove) > 0
           THEN /\ mappings' = WithoutKeys(mappings, keySet, now)
                /\ persisted' = IF RemovedCount(mappings, keySet) > 0
                                THEN SaveData(mappings') ELSE persisted
           ELSE UNCHANGED <<mappings, persisted>>
        /\ lastOp' = Op("removeAssetsByFilter",
                        Len(toRemove), Len(toRemove) > 0)
        /\ UNCHANGED now

\* Date.now() advances
Tick ==
    /\ now < MaxClock
    /\ now' = now + 1
    /\ UNCHANGED idxVars

IndexNext ==
    \/ load /\ UNCHANGED <<pubVars, sideVars>>
    \/ \E d \in DocIds, sid \in ShareIds, as \in AssetLists :
           addOrUpdateMapping(d, sid, as) /\ UNCHANGED <<pubVars, sideVars>>
    \/ \E d \in DocIds : removeMapping(d) /\ UNCHANGED <<pubVars, sideVars>>
    \/ \E sid \in ShareIds : removeMappingByShareId(sid) /\ UNCHANGED <<pubVars, sideVars>>
    \/ clearAll /\ UNCHANGED <<pubVars, sideVars>>
    \/ \E d \in DocIds, k \in SampleKeys : removeAssetFromDoc(d, k) /\ UNCHANGED <<pubVars, sideVars>>
    \/ \E ks \in SUBSET SampleKeys : removeAssets(ks) /\ UNCHANGED <<pubVars, sideVars>>
    \/ \E f \in Filters : removeAssetsByFilter(f) /\ UNCHANGED <<pubVars, sideVars>>
    \/ Tick /\ UNCHANGED <<pubVars, sideVars>>

NoCur == [path |-> <<>>]

Callers == {"b1", "b2"}

NoPublishers ==
    [c \in Callers |-> [pc |-> "idle", docId |-> "", assets |-> <<>>, uploaded |-> FALSE]]

\* the rows of table users
UserIds == {"u1", "u2"}

\* a request that is not running
NoHandler == [pc |-> "idle", userID |-> "", ut |-> [none |-> TRUE]]

NoResponse == [op |-> "none", status |-> 0]

\* the backend with its users created and active, no API token and no session
AuthIdle ==
    /\ users = [u \in UserIds |-> [isActive |-> TRUE]]
    /\ userTokens = <<>>
    /\ sessions = {}
    /\ handlers = [c \in Callers |-> NoHandler]
    /\ served = NoResponse
    /\ revokedIds = {}
    /\ issued = 0

NoCalls == [p \in AllPaths |->
              [fetch |-> 0, attempts |-> 0, direct |-> 0, relay |-> 0,
               dOut |-> "none", rOut |-> "none"]]

PubIdle ==
    /\ pc = "idle"
    /\ doc = ""
    /\ paths = <<>>
    /\ idx = 0
    /\ onProg = FALSE
    /\ uploadedAssets = <<>>
    /\ filesToUpload = <<>>
    /\ fidx = 0
    /\ cur = NoCur
    /\ results = <<>>
    /\ errors = <<>>
    /\ events = <<>>
    /\ calls = NoCalls
    /\ shown = <<>>
    /\ shareId = ""
    /\ publishes = 0


NoSave == [none |-> TRUE]

\* no index operation is running and no deleteFiles call either
SideIdle ==
    /\ ipc = [c \in Callers |-> "idle"]
    /\ saves = [c \in Callers |-> NoSave]
    /\ delKeys = <<>>
    /\ didx = 0
    /\ success = <<>>
    /\ failed = <<>>
    /\ answers = <<>>
    /\ callLog = <<>>
    /\ docContent = <<>>
    /\ processedContent = <<>>
    /\ shareRecords = {}
    /\ publishers = NoPublishers
    /\ AuthIdle

IndexInit ==
    /\ mappings = <<>>
    /\ persisted \in InitPersisted
    /\ now = 0
    /\ lastOp = NoOp
    /\ settings = BaseSettings
    /\ PubIdle
    /\ SideIdle

\* the index driven through its public methods
SpecIndex == IndexInit /\ [][IndexNext]_vars

\* stored data that holds two mappings of one document
DuplicateData ==
    <<[docId |-> "d1", shareId |-> "s1",
       assets |-> <<UploadedRecord(BaseS3, PA, "c1", 0)>>,
       createdAt |-> 0, updatedAt |-> 0],
      [docId |-> "d1", shareId |-> "s2",
       assets |-> <<UploadedRecord(BaseS3, PB, "c2", 0)>>,
       createdAt |-> 0, updatedAt |-> 0]>>

LoadInit ==
    /\ mappings = <<>>
    /\ persisted \in InitPersisted \cup {DuplicateData}
    /\ now = 0
    /\ lastOp = NoOp
    /\ settings = BaseSettings
    /\ PubIdle
    /\ SideIdle

\* a new AssetRecordManager over any stored data
SpecLoad == LoadInit /\ [][IndexNext]_vars

----------------------------------------------------------------------------
(* ShareService.createShare, processAndUploadAssets and S3UploadService    *)

\* extractAssetPaths(content): the distinct local asset paths of a document
PathLists ==
    UNION { { ps \in [1..n -> LocalPaths] : \A i, j \in 1..n : ps[i] = ps[j] => i = j }
            : n \in 0..Cardinality(LocalPaths) }

HttpStatuses == {200, 403}

\* answers of POST /api/network/forwardProxy: fetch rejects, or a response with
\* a content type (JSON or not), resp.ok and the envelope's code
RelayAnswers ==
    { [kind |-> "reject", json |-> FALSE, ok |-> FALSE, code |-> "undefined"] }
        \cup [kind : {"response"}, json : BOOLEAN, ok : BOOLEAN,
              code : {"undefined", "0", "1"}]

\* uploadViaForwardProxy: the checks on the relay's answer pass
RelayAccepted(ans) ==
    /\ ans.kind = "response"
    /\ IF ans.json
       THEN ~(~ans.ok \/ (ans.code # "undefined" /\ ans.code # "0"))
       ELSE ans.ok

Event(file, status, percentage) ==
    [fileName |-> file.name, status |-> status, percentage |-> percentage]

Emit(evs) == events' = IF onProg THEN events \o evs ELSE events

NeverUploaded(m, localPath) == FALSE

\* processAndUploadAssets: if (existingAsset)
IsAlreadyUploaded(m, localPath) == findAssetByLocalPath(m, localPath) # NoAsset

\* createShare up to the call of processAndUploadAssets
CreateShareStart(docId, refs, cb, exported) ==
    /\ pc \in {"idle", "done", "failed"}
    /\ publishes < MaxPublishes
    /\ publishes' = publishes + 1
    /\ doc' = docId
    /\ onProg' = cb
    /\ uploadedAssets' = <<>>
    /\ filesToUpload' = <<>>
    /\ results' = <<>>
    /\ errors' = <<>>
    /\ events' = <<>>
    /\ calls' = NoCalls
    /\ shown' = <<>>
    /\ shareId' = ""
    /\ cur' = NoCur
    /\ fidx' = 0
    /\ IF settings.serverUrl = "" \/ settings.apiToken = "" \/ settings.siyuanToken = ""
          \/ ~exported
       THEN pc' = "failed" /\ paths' = <<>> /\ idx' = 0
       ELSE IF settings.s3.enabled /\ Len(refs) > 0
            THEN pc' = "scan" /\ paths' = refs /\ idx' = 1
            ELSE pc' = "api" /\ paths' = <<>> /\ idx' = 0
    /\ UNCHANGED <<mappings, persisted, now, lastOp, settings>>

\* end of the loop over assetPaths
AfterScan(files) ==
    IF idx < Len(paths)
    THEN pc' = "scan" /\ idx' = idx + 1 /\ fidx' = fidx
    ELSE /\ idx' = idx
         /\ IF Len(files) > 0 THEN pc' = "upload" /\ fidx' = 1
                              ELSE pc' = "api" /\ fidx' = fidx

\* processAndUploadAssets, loop body: the dedup check hits
ScanHit ==
    /\ pc = "scan"
    /\ IsAlreadyUploaded(mappings, paths[idx])
    /\ uploadedAssets' = Append(uploadedAssets, findAssetByLocalPath(mappings, paths[idx]))
    /\ AfterScan(filesToUpload)
    /\ UNCHANGED <<mappings, persisted, now, lastOp, settings, doc, paths, onProg,
                   filesToUpload, cur, results, errors, events, calls, shown,
                   shareId, publishes>>

\* processAndUploadAssets, loop body: no record, fetchAssetFile is called
ScanFetch(fetched, content, type) ==
    /\ pc = "scan"
    /\ ~IsAlreadyUploaded(mappings, paths[idx])
    /\ calls' = [calls EXCEPT ![paths[idx]].fetch = @ + 1]
    /\ filesToUpload' =
           IF fetched
           THEN Append(filesToUpload, [file |-> MkFile(paths[idx], content, type),
                                       localPath |-> paths[idx]])
           ELSE filesToUpload
    /\ AfterScan(filesToUpload')
    /\ UNCHANGED <<mappings, persisted, now, lastOp, settings, doc, paths, onProg,
                   uploadedAssets, cur, results, errors, events, shown,
                   shareId, publishes>>

\* uploadFiles: return results
UploadFilesReturn(res, errs) == res

EndOfFileStopOnError(ok, localPath, record, message) ==
    /\ results' = IF ok THEN Append(results, record) ELSE results
    /\ errors' = IF ok THEN errors
                 ELSE Append(errors, [localPath |-> localPath, error |-> message])
    /\ cur' = NoCur
    /\ IF ok /\ fidx < Len(filesToUpload)
       THEN /\ pc' = "upload"
            /\ fidx' = fidx + 1
            /\ UNCHANGED <<shown, uploadedAssets>>
       ELSE /\ pc' = "api"
            /\ fidx' = fidx
            /\ shown' = IF Len(errors') > 0 THEN Append(shown, errors') ELSE shown
            /\ uploadedAssets' = uploadedAssets \o UploadFilesReturn(results', errors')

\* uploadFiles: one iteration ends with a record (ok) or in the catch block;
\* after the last iteration the errors are shown, the records returned and
\* pushed to uploadedAssets by processAndUploadAssets
EndOfFile(ok, localPath, record, message) ==
    /\ results' = IF ok THEN Append(results, record) ELSE results
    /\ errors' = IF ok THEN errors
                 ELSE Append(errors, [localPath |-> localPath, error |-> message])
    /\ cur' = NoCur
    /\ IF fidx < Len(filesToUpload)
       THEN /\ pc' = "upload"
            /\ fidx' = fidx + 1
            /\ UNCHANGED <<shown, uploadedAssets>>
       ELSE /\ pc' = "api"
            /\ fidx' = fidx
            /\ shown' = IF Len(errors') > 0 THEN Append(shown, errors') ELSE shown
            /\ uploadedAssets' = uploadedAssets \o UploadFilesReturn(results', errors')

\* uploadFile up to xhr.send(file) of performUpload
UploadFileBegin(signed) ==
    /\ pc = "upload"
    /\ LET item == filesToUpload[fidx]
           file == item.file
           hash == calculateFileHash(file)
           timestamp == now
           s3Key == S3Key(settings.s3, timestamp, hash, getFileExtension(file.name))
       IN  IF ~settings.s3.enabled \/ ~validateConfig(settings.s3)
           THEN /\ calls' = [calls EXCEPT ![item.localPath].attempts = @ + 1]
                /\ events' = events
                /\ EndOfFile(FALSE, item.localPath, NoAsset, "config")
           ELSE IF ~signed
           THEN /\ calls' = [calls EXCEPT ![item.localPath].attempts = @ + 1]
                /\ Emit(<<Event(file, "pending", 0), Event(file, "uploading", 0),
                          Event(file, "error", 0)>>)
                /\ EndOfFile(FALSE, item.localPath, NoAsset, "signing")
           ELSE /\ calls' = [calls EXCEPT ![item.localPath].attempts = @ + 1,
                                          ![item.localPath].direct = @ + 1]
                /\ Emit(<<Event(file, "pending", 0), Event(file, "uploading", 0)>>)
                /\ cur' = [path |-> item.localPath, file |-> file, hash |-> hash,
                           timestamp |-> timestamp, s3Key |-> s3Key, progress |-> 0]
                /\ pc' = "direct"
                /\ UNCHANGED <<results, errors, fidx, shown, uploadedAssets>>
    /\ UNCHANGED <<mappings, persisted, now, lastOp, settings, doc, paths, idx, onProg,
                   filesToUpload, shareId, publishes>>

\* performUpload: xhr.upload 'progress' listener
DirectProgress ==
    /\ pc = "direct"
    /\ onProg
    /\ cur.progress < MaxProgress
    /\ cur' = [cur EXCEPT !.progress = @ + 1]
    /\ events' = Append(events, Event(cur.file, "uploading", 50))
    /\ UNCHANGED <<mappings, persisted, now, lastOp, settings, pc, doc, paths, idx,
                   onProg, uploadedAssets, filesToUpload, fidx, results, errors,
                   calls, shown, shareId, publishes>>

RelayOnAnyFailure(listener, status) ==
    listener = "error" \/ (listener = "load" /\ ~(status >= 200 /\ status < 300))

\* performUpload: the listener that calls uploadViaForwardProxy
UsesRelay(listener, status) == listener = "error"

RelayAlways(token) == TRUE

\* uploadViaForwardProxy: if (!configToken) throw
HasRelayToken(token) == token # ""

SettleDirectNoAwait(listener, status) ==
    /\ calls' = [calls EXCEPT ![cur.path].dOut = "error", ![cur.path].relay = @ + 1]
    /\ events' = events
    /\ EndOfFile(FALSE, cur.path, NoAsset, "relay")

\* performUpload: the 'load', 'error' and 'abort' listeners settle the promise;
\* the 'error' listener goes through uploadViaForwardProxy up to its fetch
SettleDirect(listener, status) ==
    LET out == IF listener = "load" THEN ToString(status) ELSE listener
    IN  IF UsesRelay(listener, status)
        THEN IF HasRelayToken(settings.windowToken)
             THEN /\ calls' = [calls EXCEPT ![cur.path].dOut = out,
                                            ![cur.path].relay = @ + 1]
                  /\ Emit(<<Event(cur.file, "uploading", 0),
                            Event(cur.file, "uploading", 5)>>)
                  /\ pc' = "relay"
                  /\ UNCHANGED <<cur, results, errors, fidx, shown, uploadedAssets>>
             ELSE /\ calls' = [calls EXCEPT ![cur.path].dOut = out]
                  /\ Emit(<<Event(cur.file, "uploading", 0),
                            Event(cur.file, "uploading", 5),
                            Event(cur.file, "error", 0)>>)
                  /\ EndOfFile(FALSE, cur.path, NoAsset, "no-token")
        ELSE IF listener = "load" /\ status >= 200 /\ status < 300
        THEN /\ calls' = [calls EXCEPT ![cur.path].dOut = out]
             /\ Emit(<<Event(cur.file, "success", 100)>>)
             /\ EndOfFile(TRUE, cur.path,
                          MkRecord(cur.path, cur.file, cur.s3Key,
                                   DirectResultUrl(settings.s3, cur.s3Key),
                                   cur.hash, cur.timestamp),
                          "")
        ELSE /\ calls' = [calls EXCEPT ![cur.path].dOut = out]
             /\ Emit(<<Event(cur.file, "error", 0)>>)
             /\ EndOfFile(FALSE, cur.path, NoAsset,
                          IF listener = "abort" THEN "cancelled" ELSE "http")

\* performUpload: 'load' listener, then the rest of uploadFile
DirectLoad(status) ==
    /\ pc = "direct"
    /\ SettleDirect("load", status)
    /\ UNCHANGED <<mappings, persisted, now, lastOp, settings, doc, paths, idx, onProg,
                   filesToUpload, shareId, publishes>>

\* performUpload: 'error' listener
DirectError ==
    /\ pc = "direct"
    /\ SettleDirect("error", 0)
    /\ UNCHANGED <<mappings, persisted, now, lastOp, settings, doc, paths, idx, onProg,
                   filesToUpload, shareId, publishes>>

\* performUpload: 'abort' listener
DirectAbort ==
    /\ pc = "direct"
    /\ SettleDirect("abort", 0)
    /\ UNCHANGED <<mappings, persisted, now, lastOp, settings, doc, paths, idx, onProg,
                   filesToUpload, shareId, publishes>>

\* uploadViaForwardProxy after its fetch, then the rest of performUpload and uploadFile
RelayAnswer(ans) ==
    /\ pc = "relay"
    /\ calls' = [calls EXCEPT ![cur.path].rOut =
                     IF RelayAccepted(ans) THEN "ok" ELSE "failed"]
    /\ IF RelayAccepted(ans)
       THEN /\ Emit(<<Event(cur.file, "success", 100), Event(cur.file, "success", 100)>>)
            /\ EndOfFile(TRUE, cur.path,
                         MkRecord(cur.path, cur.file, cur.s3Key,
                                  RelayResultUrl(settings.s3, cur.s3Key),
                                  cur.hash, cur.timestamp),
                         "")
       ELSE /\ Emit(<<Event(cur.file, "error", 0)>>)
            /\ EndOfFile(FALSE, cur.path, NoAsset, "relay")
    /\ UNCHANGED <<mappings, persisted, now, lastOp, settings, doc, paths, idx, onProg,
                   filesToUpload, shareId, publishes>>

\* createShare from callShareAPI to its end
CallShareAPI(answered, sid) ==
    /\ pc = "api"
    /\ IF answered
       THEN /\ pc' = "done"
            /\ shareId' = sid
            /\ IF Len(uploadedAssets) > 0
               THEN addOrUpdateMapping(doc, sid, uploadedAssets)
               ELSE UNCHANGED <<mappings, persisted, now, lastOp>>
       ELSE /\ pc' = "failed"
            /\ shareId' = ""
            /\ UNCHANGED <<mappings, persisted, now, lastOp>>
    /\ UNCHANGED <<settings, doc, paths, idx, onProg, uploadedAssets, filesToUpload,
                   fidx, cur, results, errors, events, calls, shown, publishes>>

\* plugin start: the stored mappings are loaded before the first operation
Startup ==
    /\ pc = "idle"
    /\ lastOp = NoOp
    /\ load
    /\ UNCHANGED <<pubVars, sideVars>>

UploadNext ==
    \/ (\E signed \in BOOLEAN : UploadFileBegin(signed)) /\ UNCHANGED sideVars
    \/ DirectProgress /\ UNCHANGED sideVars
    \/ (\E st \in HttpStatuses : DirectLoad(st)) /\ UNCHANGED sideVars
    \/ DirectAbort /\ UNCHANGED sideVars
    \/ DirectError /\ UNCHANGED sideVars
    \/ (\E ans \in RelayAnswers : RelayAnswer(ans)) /\ UNCHANGED sideVars
    \/ Tick /\ UNCHANGED <<pubVars, sideVars>>

Next ==
    \/ Startup
    \/ (\E d \in DocIds, refs \in PathLists, cb \in BOOLEAN, exported \in BOOLEAN :
           CreateShareStart(d, refs, cb, exported)) /\ UNCHANGED sideVars
    \/ ScanHit /\ UNCHANGED sideVars
    \/ (\E fetched \in BOOLEAN, c \in Contents, ty \in FileTypes :
           ScanFetch(fetched, c, ty)) /\ UNCHANGED sideVars
    \/ UploadNext
    \/ (\E answered \in BOOLEAN, sid \in ShareIds : CallShareAPI(answered, sid))
           /\ UNCHANGED sideVars

Init ==
    /\ mappings = <<>>
    /\ persisted \in InitPersisted
    /\ now = 0
    /\ lastOp = NoOp
    /\ settings \in Settings
    /\ PubIdle
    /\ SideIdle

\* documents being published, one createShare at a time
Spec == Init /\ [][Next]_vars

\* the files of a batch handed to uploadFiles: n files of distinct paths
BatchFiles(n) ==
    [i \in 1..n |->
        [file |-> MkFile(BatchPath(i), IF i % 2 = 1 THEN "c1" ELSE "c2", ""),
         localPath |-> BatchPath(i)]]

BatchInit ==
    /\ mappings = <<>>
    /\ persisted = <<>>
    /\ now = 0
    /\ lastOp = NoOp
    /\ settings \in Settings
    /\ pc = "upload"
    /\ doc = ""
    /\ paths = <<>>
    /\ idx = 0
    /\ onProg \in BOOLEAN
    /\ uploadedAssets = <<>>
    /\ filesToUpload \in { BatchFiles(n) : n \in 1..MaxFiles }
    /\ fidx = 1
    /\ cur = NoCur
    /\ results = <<>>
    /\ errors = <<>>
    /\ events = <<>>
    /\ calls = NoCalls
    /\ shown = <<>>
    /\ shareId = ""
    /\ publishes = 0
    /\ SideIdle

\* one call of uploadFiles
SpecBatch == BatchInit /\ [][UploadNext]_vars

----------------------------------------------------------------------------
(* AssetRecordManager with the await of save() as a suspension point: the  *)
(* synchronous part of a method changes the Map and hands a snapshot to    *)
(* plugin.saveData; the write ends later, resolved or rejected, and other  *)
(* callers run in between.                                                 *)

\* a mutating method up to its await: the Map is changed, and save(), when it
\* is reached, passes Array.from(this.mappings.values()) to plugin.saveData
Begin(c, name, after, reachesSave) ==
    /\ ipc[c] = "idle"
    /\ mappings' = after
    /\ lastOp' = Op(name, 0, reachesSave)
    /\ IF reachesSave
       THEN /\ saves' = [saves EXCEPT ![c] = [data |-> SaveData(after)]]
            /\ ipc' = [ipc EXCEPT ![c] = "saving"]
       ELSE /\ saves' = saves
            /\ ipc' = [ipc EXCEPT ![c] = "returned"]
    /\ UNCHANGED <<persisted, now>>

addOrUpdateMappingBegin(c, docId, sid, assets) ==
    Begin(c, "addOrUpdateMapping", Upsert(mappings, docId, sid, assets, now), TRUE)

removeMappingBegin(c, docId) ==
    Begin(c, "removeMapping", MapDelete(mappings, docId), TRUE)

removeMappingByShareIdBegin(c, sid) ==
    Begin(c, "removeMappingByShareId", DeleteByShare(mappings, sid), TRUE)

clearAllBegin(c) == Begin(c, "clearAll", <<>>, TRUE)

removeAssetFromDocBegin(c, docId, s3Key) ==
    LET mp == getMapping(mappings, docId)
        found == /\ MapHas(mappings, docId)
                 /\ \E k \in 1..Len(mp.assets) : mp.assets[k].s3Key = s3Key
    IN  Begin(c, "removeAssetFromDoc",
              IF found THEN WithoutAsset(mappings, docId, s3Key, now) ELSE mappings,
              found)

removeAssetsBegin(c, s3Keys) ==
    Begin(c, "removeAssets", WithoutKeys(mappings, s3Keys, now),
          RemovedCount(mappings, s3Keys) > 0)

removeAssetsByFilterBegin(c, f) ==
    LET toRemove == ToRemove(mappings, f)
    IN  Begin(c, "removeAssetsByFilter",
              IF Len(toRemove) > 0 THEN WithoutKeys(mappings, Range(toRemove), now)
                                   ELSE mappings,
              Len(toRemove) > 0 /\ RemovedCount(mappings, Range(toRemove)) > 0)

\* plugin.saveData resolves: the data passed to it is what is stored
SaveResolve(c) ==
    /\ ipc[c] = "saving"
    /\ persisted' = saves[c].data
    /\ saves' = [saves EXCEPT ![c] = NoSave]
    /\ ipc' = [ipc EXCEPT ![c] = "returned"]
    /\ UNCHANGED <<mappings, now, lastOp>>

\* plugin.saveData rejects: the rejection leaves the method through its await
SaveReject(c) ==
    /\ ipc[c] = "saving"
    /\ saves' = [saves EXCEPT ![c] = NoSave]
    /\ ipc' = [ipc EXCEPT ![c] = "thrown"]
    /\ UNCHANGED <<mappings, persisted, now, lastOp>>

SaveNext ==
    \/ \E c \in Callers, d \in DocIds, sid \in ShareIds, as \in AssetLists :
           addOrUpdateMappingBegin(c, d, sid, as) /\ UNCHANGED <<pubVars, delVars, callLog, docVars, recVars, raceVars, authVars>>
    \/ \E c \in Callers, d \in DocIds :
           removeMappingBegin(c, d) /\ UNCHANGED <<pubVars, delVars, callLog, docVars, recVars, raceVars, authVars>>
    \/ \E c \in Callers, sid \in ShareIds :
           removeMappingByShareIdBegin(c, sid) /\ UNCHANGED <<pubVars, delVars, callLog, docVars, recVars, raceVars, authVars>>
    \/ \E c \in Callers : clearAllBegin(c) /\ UNCHANGED <<pubVars, delVars, callLog, docVars, recVars, raceVars, authVars>>
    \/ \E c \in Callers, d \in DocIds, k \in SampleKeys :
           removeAssetFromDocBegin(c, d, k) /\ UNCHANGED <<pubVars, delVars, callLog, docVars, recVars, raceVars, authVars>>
    \/ \E c \in Callers, ks \in SUBSET SampleKeys :
           removeAssetsBegin(c, ks) /\ UNCHANGED <<pubVars, delVars, callLog, docVars, recVars, raceVars, authVars>>
    \/ \E c \in Callers, f \in Filters :
           removeAssetsByFilterBegin(c, f) /\ UNCHANGED <<pubVars, delVars, callLog, docVars, recVars, raceVars, authVars>>
    \/ \E c \in Callers : SaveResolve(c) /\ UNCHANGED <<pubVars, delVars, callLog, docVars, recVars, raceVars, authVars>>
    \/ \E c \in Callers : SaveReject(c) /\ UNCHANGED <<pubVars, delVars, callLog, docVars, recVars, raceVars, authVars>>
    \/ Tick /\ UNCHANGED <<pubVars, sideVars>>

\* the index after load(): memory and stored data agree
SaveInit ==
    /\ persisted \in InitPersisted
    /\ mappings = LoadInto(<<>>, persisted)
    /\ now = 0
    /\ lastOp = Op("load", 0, FALSE)
    /\ settings = BaseSettings
    /\ PubIdle
    /\ SideIdle

\* index operations of independent callers, interleaved at their awaits
SpecSave == SaveInit /\ [][SaveNext]_vars

----------------------------------------------------------------------------
(* S3UploadService.deleteFile, deleteFiles and performDelete               *)

\* argument lists of deleteFiles
DelKeyLists == UNION { [1..n -> SampleKeys] : n \in 0..MaxKeys }

\* statuses the storage answers to a DELETE
DeleteStatuses == {200, 299, 300, 404, 500}

DeleteResolvesOn2xx(status) == status >= 200 /\ status < 300

\* performDelete, 'load' listener: the statuses that resolve
DeleteResolves(status) == (status >= 200 /\ status < 300) \/ status = 404

\* deleteFiles: one iteration ends in success.push or, in the catch block, in
\* failed.push
EndOfDelete(ok, answer) ==
    /\ didx >= 1 /\ didx <= Len(delKeys)
    /\ success' = IF ok THEN Append(success, delKeys[didx]) ELSE success
    /\ failed' = IF ok THEN failed ELSE Append(failed, delKeys[didx])
    /\ answers' = Append(answers, answer)
    /\ didx' = didx + 1
    /\ UNCHANGED <<delKeys, idxVars, now, pubVars, saveVars, callLog, docVars, recVars, raceVars, authVars>>

\* deleteFile throws before a request is sent: configuration check, or the
\* signing of the headers fails
DeleteNoRequest(signed) ==
    /\ ~settings.s3.enabled \/ ~validateConfig(settings.s3) \/ ~signed
    /\ EndOfDelete(FALSE, "none")

\* performDelete: 'load' listener
DeleteLoad(status) ==
    /\ settings.s3.enabled /\ validateConfig(settings.s3)
    /\ EndOfDelete(DeleteResolves(status), ToString(status))

\* performDelete: 'error' listener
DeleteError ==
    /\ settings.s3.enabled /\ validateConfig(settings.s3)
    /\ EndOfDelete(FALSE, "error")

DeleteNext ==
    \/ \E signed \in BOOLEAN : DeleteNoRequest(signed)
    \/ \E st \in DeleteStatuses : DeleteLoad(st)
    \/ DeleteError

DeleteInit ==
    /\ mappings = <<>>
    /\ persisted = <<>>
    /\ now = 0
    /\ lastOp = NoOp
    /\ settings \in Settings
    /\ PubIdle
    /\ ipc = [c \in Callers |-> "idle"]
    /\ saves = [c \in Callers |-> NoSave]
    /\ delKeys \in DelKeyLists
    /\ didx = 1
    /\ success = <<>>
    /\ failed = <<>>
    /\ answers = <<>>
    /\ callLog = <<>>
    /\ docContent = <<>>
    /\ processedContent = <<>>
    /\ shareRecords = {}
    /\ publishers = NoPublishers
    /\ AuthIdle

\* one call of deleteFiles
SpecDelete == DeleteInit /\ [][DeleteNext]_vars

----------------------------------------------------------------------------
(* One S3UploadService under each kind of configuration, running one       *)
(* uploadFiles call or one deleteFiles call                                *)

\* the configurations of Settings and one per missing field
ConfigCases ==
    Settings \cup
    { [BaseSettings EXCEPT !.s3.endpoint = <<>>],
      [BaseSettings EXCEPT !.s3.region = ""],
      [BaseSettings EXCEPT !.s3.accessKeyId = ""],
      [BaseSettings EXCEPT !.s3.secretAccessKey = ""] }

ServiceInit ==
    /\ mappings = <<>>
    /\ persisted = <<>>
    /\ now = 0
    /\ lastOp = NoOp
    /\ settings \in ConfigCases
    /\ doc = ""
    /\ paths = <<>>
    /\ idx = 0
    /\ onProg \in BOOLEAN
    /\ uploadedAssets = <<>>
    /\ cur = NoCur
    /\ results = <<>>
    /\ errors = <<>>
    /\ events = <<>>
    /\ calls = NoCalls
    /\ shown = <<>>
    /\ shareId = ""
    /\ publishes = 0
    /\ ipc = [c \in Callers |-> "idle"]
    /\ saves = [c \in Callers |-> NoSave]
    /\ success = <<>>
    /\ failed = <<>>
    /\ answers = <<>>
    /\ callLog = <<>>
    /\ docContent = <<>>
    /\ processedContent = <<>>
    /\ shareRecords = {}
    /\ publishers = NoPublishers
    /\ AuthIdle
    /\ \/ /\ pc = "upload"
          /\ filesToUpload \in { BatchFiles(n) : n \in 1..MaxFiles }
          /\ fidx = 1
          /\ delKeys = <<>>
          /\ didx = 0
       \/ /\ pc = "idle"
          /\ filesToUpload = <<>>
          /\ fidx = 0
          /\ delKeys \in DelKeyLists
          /\ didx = 1

SpecService == ServiceInit /\ [][UploadNext \/ DeleteNext]_vars

----------------------------------------------------------------------------
(* S3UploadService.generateSignedHeaders: AWS Signature V4.  Digests and   *)
(* MACs are terms over their arguments.                                    *)

\* a clock reading is a number of seconds within one day
formatDateStamp(t) == <<"19700101">>

formatAmzDate(t) ==
    formatDateStamp(t) \o <<"T", "00", "00">>
        \o (IF t < 10 THEN <<"0", ToString(t)>> ELSE <<ToString(t)>>) \o <<"Z">>

sha256(message) == <<"sha256(">> \o message \o <<")">>

hmacSha256(key, message) == <<"hmac(">> \o key \o <<",">> \o message \o <<")">>

hmacSha256Hex(key, message) == <<"hex(">> \o hmacSha256(key, message) \o <<")">>

getSignatureKey(secretKey, dateStamp, regionName, serviceName) ==
    LET kDate == hmacSha256(<<"AWS4", secretKey>>, dateStamp)
        kRegion == hmacSha256(kDate, <<regionName>>)
        kService == hmacSha256(kRegion, <<serviceName>>)
    IN  hmacSha256(kService, <<"aws4_request">>)

encodeURIComponent(part) == IF part = " " THEN "%20" ELSE part

\* '/' + key.split('/').map(part => encodeURIComponent(part)).join('/')
CanonicalUri(key) ==
    <<"/">> \o [i \in 1..Len(key) |->
                  IF key[i] = "/" THEN "/" ELSE encodeURIComponent(key[i])]

\* `${bucket}.${endpoint}`
SignerHost(c) == c.bucket \o <<".">> \o StripProtocol(c.endpoint)

CanonicalHeadersNoHost(c, t) ==
    <<"x-amz-content-sha256:", "UNSIGNED-PAYLOAD", "\n", "x-amz-date:">>
        \o formatAmzDate(t) \o <<"\n">>

CanonicalHeaders(c, t) ==
    <<"host:">> \o SignerHost(c)
        \o <<"\n", "x-amz-content-sha256:", "UNSIGNED-PAYLOAD", "\n", "x-amz-date:">>
        \o formatAmzDate(t) \o <<"\n">>

SignedHeaders == <<"host;x-amz-content-sha256;x-amz-date">>

CanonicalRequest(c, method, key, t) ==
    <<method, "\n">> \o CanonicalUri(key) \o <<"\n", "\n">>
        \o CanonicalHeaders(c, t) \o <<"\n">>
        \o SignedHeaders \o <<"\n", "UNSIGNED-PAYLOAD">>

CredentialScope(c, t) ==
    formatDateStamp(t) \o <<"/", c.region, "/", "s3", "/", "aws4_request">>

StringToSign(c, method, key, t) ==
    <<"AWS4-HMAC-SHA256", "\n">> \o formatAmzDate(t) \o <<"\n">>
        \o CredentialScope(c, t) \o <<"\n">>
        \o sha256(CanonicalRequest(c, method, key, t))

AuthorizationHeaderCounting(c, method, key, t) ==
    <<"AWS4-HMAC-SHA256", " ", "Credential=", c.accessKeyId, "/">>
        \o CredentialScope(c, t)
        \o <<", ", "SignedHeaders=">> \o SignedHeaders
        \o <<", ", "Signature=", ToString(Len(callLog))>>

AuthorizationHeader(c, method, key, t) ==
    <<"AWS4-HMAC-SHA256", " ", "Credential=", c.accessKeyId, "/">>
        \o CredentialScope(c, t)
        \o <<", ", "SignedHeaders=">> \o SignedHeaders
        \o <<", ", "Signature=">>
        \o hmacSha256Hex(getSignatureKey(c.secretAccessKey, formatDateStamp(t),
                                         c.region, "s3"),
                         StringToSign(c, method, key, t))

\* the headers returned, by name
generateSignedHeaders(c, method, key, contentType, contentLength, t) ==
    [h \in {"Content-Type", "x-amz-date", "x-amz-content-sha256", "Authorization"} |->
        CASE h = "Content-Type" -> <<contentType>>
          [] h = "x-amz-date" -> formatAmzDate(t)
          [] h = "x-amz-content-sha256" -> <<"UNSIGNED-PAYLOAD">>
          [] OTHER -> AuthorizationHeader(c, method, key, t)]

\* keys handed to the signer
SignKeys ==
    { S3Key(BaseS3, 0, "9f86d081884c7d65", <<".", "png">>),
      <<"my", " ", "files", "/", "0", "-", "9f86d081884c7d65">> }

\* one call of generateSignedHeaders, as performUpload and performDelete make it
Sign(method, key, contentType, contentLength) ==
    /\ Len(callLog) < MaxCalls
    /\ callLog' = Append(callLog,
                         [fn |-> "generateSignedHeaders", method |-> method,
                          key |-> key, contentType |-> contentType,
                          contentLength |-> contentLength, config |-> settings.s3,
                          t |-> now,
                          canonicalRequest |-> CanonicalRequest(settings.s3, method, key, now),
                          out |-> generateSignedHeaders(settings.s3, method, key,
                                                        contentType, contentLength, now)])
    /\ UNCHANGED <<idxVars, now, pubVars, saveVars, delVars, docVars, recVars, raceVars, authVars>>

\* new Date().toUTCString() at clock reading t
toUTCString(t) == <<"Thu, 01 Jan 1970 00:00:00.", ToString(t), " GMT">>

\* HMAC-SHA1 of message under secret, Base64
hmacSha1Base64(secret, message) == <<"hmacSha1Base64(", secret, ",">> \o message \o <<")">>

\* generateOssHeaders: [method, contentMD5, contentType, date, resource].join('\n')
OssStringToSign(c, method, key, contentType, t) ==
    <<method, "\n", "", "\n", contentType, "\n">> \o toUTCString(t)
        \o <<"\n", "/">> \o c.bucket \o <<"/">> \o key

generateOssHeaders(c, method, key, contentType, t) ==
    [h \in {"Date", "Content-Type", "Authorization"} |->
        CASE h = "Date" -> toUTCString(t)
          [] h = "Content-Type" ->
                 <<IF contentType # "" THEN contentType ELSE "application/octet-stream">>
          [] OTHER ->
                 <<"OSS ", c.accessKeyId, ":">>
                     \o hmacSha1Base64(c.secretAccessKey,
                                       OssStringToSign(c, method, key, contentType, t))]

\* one call of generateOssHeaders, as performUpload and performDelete make it
\* for provider 'oss'
SignOss(method, key, contentType) ==
    /\ Len(callLog) < MaxCalls
    /\ callLog' = Append(callLog,
                         [fn |-> "generateOssHeaders", method |-> method, key |-> key,
                          contentType |-> contentType, t |-> now,
                          stringToSign |-> OssStringToSign(settings.s3, method, key,
                                                           contentType, now),
                          out |-> generateOssHeaders(settings.s3, method, key,
                                                     contentType, now)])
    /\ UNCHANGED <<idxVars, now, pubVars, saveVars, delVars, docVars, recVars, raceVars, authVars>>

\* blobs handed to the hasher: two names, three contents
HashFiles == { MkFile(p, c, "") : p \in LocalPaths, c \in Contents \cup {"c3"} }

\* one call of calculateFileHashPublic
Hash(file) ==
    /\ Len(callLog) < MaxCalls
    /\ callLog' = Append(callLog,
                         [fn |-> "calculateFileHash", file |-> file,
                          out |-> calculateFileHash(file)])
    /\ UNCHANGED <<idxVars, now, pubVars, saveVars, delVars, docVars, recVars, raceVars, authVars>>

SignerNext ==
    \/ \E method \in {"PUT", "DELETE"}, key \in SignKeys,
          contentType \in {"", "image/png"}, contentLength \in {0, 1} :
           Sign(method, key, contentType, contentLength)
    \/ \E method \in {"PUT", "DELETE"}, key \in SignKeys, contentType \in {"", "image/png"} :
           SignOss(method, key, contentType)
    \/ \E file \in HashFiles : Hash(file)
    \/ Tick /\ UNCHANGED <<pubVars, sideVars>>

SignerInit ==
    /\ mappings = <<>>
    /\ persisted = <<>>
    /\ now = 0
    /\ lastOp = NoOp
    /\ settings \in { st \in Settings : validateConfig(st.s3) /\ st.apiToken # "" }
    /\ PubIdle
    /\ SideIdle

\* repeated calls of the signer
SpecSigner == SignerInit /\ [][SignerNext]_vars

----------------------------------------------------------------------------
(* ShareService.processAndUploadAssets on the text of a document:           *)
(* extractAssetPaths, the dedup check and the upload of each path (by its  *)
(* outcome), and the replacement of the references                         *)

Image(alt, path) == <<"![", alt, "](">> \o path \o <<")">>

Link(text, path) == <<"[", text, "](">> \o path \o <<")">>

HtmlImg(path) == <<"<img src='">> \o path \o <<"'", ">">>

\* exported documents
Documents ==
    { <<"no assets here">>,
      Image("x", PA) \o <<" ">> \o Link("y", PA) \o <<" see ">> \o PA,
      Image("x", PA) \o <<" ">> \o Image("z", <<"/">> \o PA),
      Link("z", <<"/">> \o PA) \o <<" ">> \o Image("x", PA),
      Image("x", PA) \o <<" ">> \o Link("b", PB),
      Image("e", <<"https://", "example.com", "/", "a", ".", "png">>) \o HtmlImg(PB) }

isLocalAsset(path) ==
    IF path # <<>> /\ Head(path) \in {"http://", "https://"} THEN FALSE
    ELSE IF path # <<>> /\ Head(path) = "data:" THEN FALSE
    ELSE \/ Len(path) >= 2 /\ path[1] = "assets" /\ path[2] = "/"
         \/ Len(path) >= 3 /\ path[1] = "/" /\ path[2] = "assets" /\ path[3] = "/"

\* the least position of a set of positions, 0 for the empty set
MinPos(S) == IF S = {} THEN 0 ELSE CHOOSE i \in S : \A j \in S : i <= j

\* ([^)]+) followed by the closing token: the tokens of s from position i up
\* to the next token stop; <<>> when nothing matches
Until(s, i, stop) ==
    LET j == MinPos({ k \in i..Len(s) : s[k] = stop })
    IN  IF j > i THEN SubSeq(s, i, j - 1) ELSE <<>>

\* the capture group of one regular expression of extractAssetPaths at
\* position i: opener, one token of text, "](" and the path up to ")"
CaptureAt(s, i, openers) ==
    IF i + 3 <= Len(s) /\ s[i] \in openers /\ s[i + 2] = "]("
    THEN Until(s, i + 3, ")") ELSE <<>>

\* the capture group of one pass of extractAssetPaths at position i
CaptureOf(pass, s, i) ==
    IF pass = "image" THEN CaptureAt(s, i, {"!["})
    ELSE IF pass = "link" THEN CaptureAt(s, i, {"![", "["})
    ELSE IF s[i] = "<img src='" THEN Until(s, i + 1, "'")
    ELSE <<>>

\* paths.add over the matches of one pass at the positions at, in order of
\* occurrence
RECURSIVE AddMatches(_, _, _, _)
AddMatches(found, s, at, pass) ==
    IF at = {} THEN found
    ELSE LET i    == MinPos(at)
             path == CaptureOf(pass, s, i)
         IN  AddMatches(IF \A k \in 1..Len(found) : found[k] # path
                        THEN Append(found, path) ELSE found,
                        s, at \ {i}, pass)

\* the positions at which one pass matches a local asset
MatchesOf(pass, s) ==
    { i \in 1..Len(s) : CaptureOf(pass, s, i) # <<>> /\ isLocalAsset(CaptureOf(pass, s, i)) }

extractAssetPaths(s) ==
    LET images == AddMatches(<<>>, s, MatchesOf("image", s), "image")
        links  == AddMatches(images, s, MatchesOf("link", s), "link")
    IN  AddMatches(links, s, MatchesOf("html", s), "html")

MatchAt(s, i, pat) ==
    /\ i >= 1
    /\ i + Len(pat) - 1 <= Len(s)
    /\ SubSeq(s, i, i + Len(pat) - 1) = pat

\* s.replace(new RegExp(escapeRegex(pat), 'g'), repl)
RECURSIVE ReplaceAll(_, _, _)
ReplaceAll(s, pat, repl) ==
    LET j == MinPos({ i \in 1..Len(s) : MatchAt(s, i, pat) })
    IN  IF j = 0 THEN s
        ELSE SubSeq(s, 1, j - 1) \o repl
                 \o ReplaceAll(SubSeq(s, j + Len(pat), Len(s)), pat, repl)

\* the image and the link pattern: opener, text, "](", the path, ")" becomes
\* opener, text, "](", the URL, ")"
RECURSIVE ReplaceRefs(_, _, _, _)
ReplaceRefs(s, opener, pat, repl) ==
    LET j == MinPos({ i \in 1..Len(s) :
                        /\ s[i] = opener
                        /\ i + 2 <= Len(s) /\ s[i + 2] = "]("
                        /\ MatchAt(s, i + 3, pat \o <<")">>) })
    IN  IF j = 0 THEN s
        ELSE SubSeq(s, 1, j + 2) \o repl \o <<")">>
                 \o ReplaceRefs(SubSeq(s, j + Len(pat) + 4, Len(s)), opener, pat, repl)

\* one iteration of the loop over uploadedAssets
RewriteOne(s, asset) ==
    ReplaceAll(ReplaceRefs(ReplaceRefs(s, "![", asset.localPath, asset.s3Url),
                           "[", asset.localPath, asset.s3Url),
               asset.localPath, asset.s3Url)

\* the loop over assetPaths for one path, by what happens to it: the index
\* holds a record, the file is fetched and uploaded, or the file is lost
ScanPath(outcome) ==
    /\ pc = "scan"
    /\ idx <= Len(paths)
    /\ uploadedAssets' = IF outcome = "hit"
                         THEN Append(uploadedAssets,
                                     UploadedRecord(BaseS3, paths[idx], "c1", 0))
                         ELSE uploadedAssets
    /\ results' = IF outcome = "uploaded"
                  THEN Append(results, UploadedRecord(BaseS3, paths[idx], "c2", idx))
                  ELSE results
    /\ idx' = idx + 1
    /\ UNCHANGED <<pc, fidx, processedContent>>

\* uploadedAssets.push(...uploaded); let processedContent = content
AfterUpload ==
    /\ pc = "scan"
    /\ idx > Len(paths)
    /\ uploadedAssets' = uploadedAssets \o results
    /\ processedContent' = docContent
    /\ fidx' = 1
    /\ pc' = "rewrite"
    /\ UNCHANGED <<idx, results>>

RewriteNext ==
    /\ pc = "rewrite"
    /\ IF fidx <= Len(uploadedAssets)
       THEN /\ processedContent' = RewriteOne(processedContent, uploadedAssets[fidx])
            /\ fidx' = fidx + 1
            /\ pc' = pc
       ELSE /\ pc' = "rewritten"
            /\ UNCHANGED <<processedContent, fidx>>
    /\ UNCHANGED <<idx, results, uploadedAssets>>

RewriteFrame ==
    UNCHANGED <<idxVars, now, settings, doc, paths, onProg, filesToUpload, cur, errors,
                events, calls, shown, shareId, publishes, saveVars, delVars, callLog,
                docContent, recVars, raceVars, authVars>>

DocNext ==
    \/ (\E outcome \in {"hit", "uploaded", "lost"} : ScanPath(outcome)) /\ RewriteFrame
    \/ AfterUpload /\ RewriteFrame
    \/ RewriteNext /\ RewriteFrame

DocInit ==
    /\ mappings = <<>>
    /\ persisted = <<>>
    /\ now = 0
    /\ lastOp = NoOp
    /\ settings = BaseSettings
    /\ doc = "d1"
    /\ docContent \in Documents
    /\ paths = extractAssetPaths(docContent)
    /\ pc = IF paths = <<>> THEN "rewritten" ELSE "scan"
    /\ processedContent = IF paths = <<>> THEN docContent ELSE <<>>
    /\ shareRecords = {}
    /\ publishers = NoPublishers
    /\ AuthIdle
    /\ idx = 1
    /\ onProg = FALSE
    /\ uploadedAssets = <<>>
    /\ filesToUpload = <<>>
    /\ fidx = 0
    /\ cur = NoCur
    /\ results = <<>>
    /\ errors = <<>>
    /\ events = <<>>
    /\ calls = NoCalls
    /\ shown = <<>>
    /\ shareId = ""
    /\ publishes = 0
    /\ ipc = [c \in Callers |-> "idle"]
    /\ saves = [c \in Callers |-> NoSave]
    /\ delKeys = <<>>
    /\ didx = 0
    /\ success = <<>>
    /\ failed = <<>>
    /\ answers = <<>>
    /\ callLog = <<>>

\* processAndUploadAssets on one document
SpecDoc == DocInit /\ [][DocNext]_vars

----------------------------------------------------------------------------
(* ShareService.deleteShare and deleteShares                                *)

\* ShareRecordManager.removeRecord: the share bookkeeping, plain removal of
\* the local share record
removeRecord(records, sid) == records \ {sid}

\* ShareRecordManager.removeRecords
removeRecords(records, sids) == records \ sids

\* ShareRecordManager.clearAll
clearAllRecords(records) == {}

\* if (!config.serverUrl || !config.apiToken)
NotConfigured(st) == st.serverUrl = "" \/ st.apiToken = ""

Revoked(name, sids, ok) ==
    [op |-> name, removed |-> 0, found |-> FALSE, revoked |-> sids, ok |-> ok]

\* the outcome of one deleteShares(shareIds) call: whether shareIds was
\* passed, its content, the ids the backend reported deleted
RevokedMany(given, sids, deleted, ok) ==
    [op |-> "deleteShares", removed |-> 0, found |-> FALSE, revoked |-> deleted,
     ok |-> ok, given |-> given, asked |-> sids]

\* a deleteShare that takes every non-2xx answer, 404 included, as a failure
deleteShareFailingOn404(sid, status) ==
    /\ shareId' = sid
    /\ IF NotConfigured(settings) \/ status \notin 200..299 THEN
           /\ lastOp' = Revoked("deleteShare", {sid}, FALSE)
           /\ UNCHANGED shareRecords
       ELSE /\ shareRecords' = removeRecord(shareRecords, sid)
            /\ lastOp' = Revoked("deleteShare", {sid}, TRUE)
    /\ UNCHANGED <<mappings, persisted, now>>

\* deleteShare(shareId) against a backend answering with status
deleteShare(sid, status) ==
    /\ shareId' = sid
    /\ IF NotConfigured(settings) THEN
           /\ lastOp' = Revoked("deleteShare", {sid}, FALSE)
           /\ UNCHANGED shareRecords
       ELSE IF status \notin 200..299 THEN
           IF status = 404
           THEN /\ shareRecords' = removeRecord(shareRecords, sid)
                /\ lastOp' = Revoked("deleteShare", {sid}, TRUE)
           ELSE /\ lastOp' = Revoked("deleteShare", {sid}, FALSE)
                /\ UNCHANGED shareRecords
       ELSE /\ shareRecords' = removeRecord(shareRecords, sid)
            /\ lastOp' = Revoked("deleteShare", {sid}, TRUE)
    /\ UNCHANGED <<mappings, persisted, now>>

\* deleteShares(shareIds) against a backend answering with status, code and
\* the lists deleted and notFound; given tells whether shareIds was passed,
\* sids is its content
deleteShares(given, sids, status, code, deleted, notFound) ==
    /\ IF NotConfigured(settings) \/ status \notin 200..299 \/ code # 0 THEN
           /\ lastOp' = RevokedMany(given, sids, {}, FALSE)
           /\ UNCHANGED shareRecords
       ELSE IF given /\ sids # {} THEN
           /\ shareRecords' = IF deleted \cup notFound # {}
                              THEN removeRecords(shareRecords, deleted \cup notFound)
                              ELSE shareRecords
           /\ lastOp' = RevokedMany(given, sids, deleted, TRUE)
       ELSE /\ shareRecords' = clearAllRecords(shareRecords)
            /\ lastOp' = RevokedMany(given, sids, deleted, TRUE)
    /\ UNCHANGED <<mappings, persisted, now, shareId>>

RevokeFrame ==
    UNCHANGED <<settings, pc, doc, paths, idx, onProg, uploadedAssets, filesToUpload,
                fidx, cur, results, errors, events, calls, shown, publishes,
                saveVars, delVars, callLog, docVars, raceVars, authVars>>

\* createShare, lines 100-113: the share record and the asset mapping of
\* a published document
RecordShare(docId, sid, assets) ==
    /\ shareRecords' = shareRecords \cup {sid}
    /\ IF Len(assets) > 0
       THEN addOrUpdateMapping(docId, sid, assets)
       ELSE UNCHANGED <<idxVars, now>>
    /\ UNCHANGED shareId

RevokeNext ==
    \/ \E d \in DocIds, sid \in ShareIds, as \in AssetLists :
           RecordShare(d, sid, as) /\ RevokeFrame
    \/ \E sid \in ShareIds, status \in {200, 404, 500} :
           deleteShare(sid, status) /\ RevokeFrame
    \/ \E given \in BOOLEAN, status \in {200, 500}, code \in {0, 1} :
           \E sids \in (IF given THEN SUBSET ShareIds ELSE {{}}) :
               \E deleted \in SUBSET (IF sids = {} THEN ShareIds ELSE sids) :
                   \E notFound \in SUBSET (sids \ deleted) :
                       deleteShares(given, sids, status, code, deleted, notFound)
                           /\ RevokeFrame

RevokeInit ==
    /\ mappings = <<>>
    /\ persisted = <<>>
    /\ now = 0
    /\ lastOp = NoOp
    /\ settings \in { st \in Settings : st.apiToken = "" \/ st = BaseSettings }
    /\ PubIdle
    /\ ipc = [c \in Callers |-> "idle"]
    /\ saves = [c \in Callers |-> NoSave]
    /\ delKeys = <<>>
    /\ didx = 0
    /\ success = <<>>
    /\ failed = <<>>
    /\ answers = <<>>
    /\ callLog = <<>>
    /\ docContent = <<>>
    /\ processedContent = <<>>
    /\ shareRecords = {}
    /\ publishers = NoPublishers
    /\ AuthIdle

\* shares published and revoked
SpecRevoke == RevokeInit /\ [][RevokeNext]_vars

----------------------------------------------------------------------------
(* Two createShare calls, interleaved at their awaits, over one local path  *)

\* processAndUploadAssets: the dedup check of the path and, on a miss, the
\* await of fetchAssetFile
RaceCheck(c, docId) ==
    LET existingAsset == findAssetByLocalPath(mappings, PA)
    IN  /\ publishers[c].pc = "idle"
        /\ publishers' = [publishers EXCEPT ![c] =
               IF existingAsset # NoAsset
               THEN [pc |-> "api", docId |-> docId, assets |-> <<existingAsset>>,
                     uploaded |-> FALSE]
               ELSE [pc |-> "upload", docId |-> docId, assets |-> <<>>,
                     uploaded |-> FALSE]]
        /\ UNCHANGED <<idxVars, now, shareRecords>>

\* processAndUploadAssets: uploadFiles of the fetched file settles
RaceUpload(c, ok) ==
    /\ publishers[c].pc = "upload"
    /\ publishers' = [publishers EXCEPT ![c].pc = "api", ![c].uploaded = ok,
                          ![c].assets = IF ok THEN <<UploadedRecord(settings.s3, PA, "c1", now)>>
                                        ELSE <<>>]
    /\ UNCHANGED <<idxVars, now, shareRecords>>

\* createShare: callShareAPI answers, then addRecord and addOrUpdateMapping
RaceRecord(c, answered, sid) ==
    /\ publishers[c].pc = "api"
    /\ publishers' = [publishers EXCEPT ![c].pc = IF answered THEN "done" ELSE "failed"]
    /\ IF answered
       THEN /\ shareRecords' = shareRecords \cup {sid}
            /\ IF Len(publishers[c].assets) > 0
               THEN addOrUpdateMapping(publishers[c].docId, sid, publishers[c].assets)
               ELSE UNCHANGED <<idxVars, now>>
       ELSE UNCHANGED <<idxVars, now, shareRecords>>

RaceFrame ==
    UNCHANGED <<settings, pc, doc, paths, idx, onProg, uploadedAssets, filesToUpload,
                fidx, cur, results, errors, events, calls, shown, shareId, publishes,
                saveVars, delVars, callLog, docVars, authVars>>

RaceNext ==
    \/ \E c \in Callers, d \in DocIds : RaceCheck(c, d) /\ RaceFrame
    \/ \E c \in Callers, ok \in BOOLEAN : RaceUpload(c, ok) /\ RaceFrame
    \/ \E c \in Callers, answered \in BOOLEAN, sid \in ShareIds :
           RaceRecord(c, answered, sid) /\ RaceFrame
    \/ Tick /\ UNCHANGED <<pubVars, sideVars>>

\* two publishes of documents that reference assets/a.png
SpecRace == IndexInit /\ [][RaceNext]_vars

----------------------------------------------------------------------------
(* The backend: AuthMiddleware and the controllers of the API tokens *)

\* hashToken(raw): the hex SHA-256 digest, one digest per plaintext
hashToken(raw) == <<"sha256", raw>>

\* SESSION_SECRET, "dev-secret" when the variable is not set
SessionSecret == "dev-secret"

\* a session JWT: its sub and exp claims and the secret it was signed with
Jwt(sub, exp, secret) == [kind |-> "jwt", sub |-> sub, exp |-> exp, secret |-> secret]

\* an Authorization header "Bearer <raw>" whose raw has no two dots
Bearer(raw) == [kind |-> "api", raw |-> raw]

\* parseJWT at time t: the subject of a well-signed and unexpired JWT with a
\* subject, "" where the code returns ("", false)
parseJWT(cred, t) ==
    IF cred.kind # "jwt" THEN ""
    ELSE IF cred.secret # SessionSecret THEN ""
    ELSE IF cred.exp < t THEN ""
    ELSE cred.sub

\* DB.Where("token_hash = ? AND revoked = ?", tokenHash, false).First(&ut)
TokenByHash(rows, tokenHash) ==
    LET hit == { i \in 1..Len(rows) :
                   rows[i].tokenHash = tokenHash /\ ~rows[i].revoked }
    IN  IF hit = {} THEN [none |-> TRUE] ELSE rows[MinPos(hit)]

\* Where("id = ? AND user_id = ? AND revoked = ?", id, userID, false)
OwnLiveToken(rows, id, userID) ==
    /\ id \in 1..Len(rows)
    /\ rows[id].userId = userID
    /\ ~rows[id].revoked

Respond(op, status) == [op |-> op, status |-> status]

Passed(userID) == [NoHandler EXCEPT !.pc = "next", !.userID = userID]

\* AuthMiddleware up to the lookup of the token row
AuthMiddleware(c, cred) ==
    /\ handlers[c].pc = "idle"
    /\ IF cred.kind \notin {"jwt", "api"} THEN
           /\ served' = Respond("auth", 401)
           /\ UNCHANGED handlers
       ELSE IF parseJWT(cred, now) # "" THEN
           /\ handlers' = [handlers EXCEPT ![c] = Passed(parseJWT(cred, now))]
           /\ UNCHANGED served
       ELSE LET ut == TokenByHash(userTokens, hashToken(cred))
            IN  IF "none" \in DOMAIN ut THEN
                    /\ served' = Respond("auth", 401)
                    /\ UNCHANGED handlers
                ELSE
                    /\ handlers' = [handlers EXCEPT ![c] =
                                       [NoHandler EXCEPT !.pc = "user", !.ut = ut]]
                    /\ UNCHANGED served
    /\ UNCHANGED <<users, userTokens, sessions, revokedIds, issued>>

\* AuthMiddleware from the lookup of the user of the token row
AuthUser(c) ==
    /\ handlers[c].pc = "user"
    /\ IF users[handlers[c].ut.userId].isActive THEN
           /\ handlers' = [handlers EXCEPT ![c] = Passed(handlers[c].ut.userId)]
           /\ UNCHANGED served
       ELSE
           /\ handlers' = [handlers EXCEPT ![c] = NoHandler]
           /\ served' = Respond("auth", 401)
    /\ UNCHANGED <<users, userTokens, sessions, revokedIds, issued>>

\* ListTokens
ListTokens(c) ==
    /\ handlers[c].pc = "next"
    /\ served' = Respond("list", 200)
    /\ handlers' = [handlers EXCEPT ![c] = NoHandler]
    /\ UNCHANGED <<users, userTokens, sessions, revokedIds, issued>>

\* CreateToken; bound tells whether the body passed ShouldBindJSON
CreateToken(c, bound) ==
    /\ handlers[c].pc = "next"
    /\ issued < MaxIssued
    /\ handlers' = [handlers EXCEPT ![c] = NoHandler]
    /\ IF ~bound THEN
           /\ served' = Respond("create", 400)
           /\ UNCHANGED <<userTokens, issued>>
       ELSE
           /\ issued' = issued + 1
           /\ userTokens' = Append(userTokens,
                  [id |-> Len(userTokens) + 1, userId |-> handlers[c].userID,
                   tokenHash |-> hashToken(Bearer(issued + 1)), revoked |-> FALSE])
           /\ served' = Respond("create", 200)
    /\ UNCHANGED <<users, sessions, revokedIds>>

\* RefreshToken up to the lookup of the row
RefreshTokenFind(c, id) ==
    /\ handlers[c].pc = "next"
    /\ IF OwnLiveToken(userTokens, id, handlers[c].userID) THEN
           /\ handlers' = [handlers EXCEPT ![c] =
                              [@ EXCEPT !.pc = "refresh", !.ut = userTokens[id]]]
           /\ UNCHANGED served
       ELSE
           /\ handlers' = [handlers EXCEPT ![c] = NoHandler]
           /\ served' = Respond("refresh", 404)
    /\ UNCHANGED <<users, userTokens, sessions, revokedIds, issued>>

\* RefreshToken from randomToken(32): DB.Save(&ut) writes every column of the
\* row as it was read, with the new hash
RefreshTokenSave(c) ==
    /\ handlers[c].pc = "refresh"
    /\ issued < MaxIssued
    /\ issued' = issued + 1
    /\ userTokens' = [userTokens EXCEPT ![handlers[c].ut.id] =
                         [handlers[c].ut EXCEPT
                             !.tokenHash = hashToken(Bearer(issued + 1))]]
    /\ served' = Respond("refresh", 200)
    /\ handlers' = [handlers EXCEPT ![c] = NoHandler]
    /\ UNCHANGED <<users, sessions, revokedIds>>

\* RevokeToken
RevokeToken(c, id) ==
    /\ handlers[c].pc = "next"
    /\ handlers' = [handlers EXCEPT ![c] = NoHandler]
    /\ IF OwnLiveToken(userTokens, id, handlers[c].userID) THEN
           /\ userTokens' = [userTokens EXCEPT ![id].revoked = TRUE]
           /\ revokedIds' = revokedIds \cup {id}
           /\ served' = Respond("revoke", 200)
       ELSE
           /\ served' = Respond("revoke", 404)
           /\ UNCHANGED <<userTokens, revokedIds>>
    /\ UNCHANGED <<users, sessions, issued>>

\* a login of an active user: the client replaces the session JWT it holds
\* for that user by a new one, good for the current reading of the clock
Login(u) ==
    /\ users[u].isActive
    /\ sessions' = {j \in sessions : j.sub # u} \cup {Jwt(u, now, SessionSecret)}
    /\ UNCHANGED <<users, userTokens, handlers, served, revokedIds, issued>>

\* is_active of a user set by an administrator
SetActive(u, b) ==
    /\ users[u].isActive # b
    /\ users' = [users EXCEPT ![u].isActive = b]
    /\ UNCHANGED <<userTokens, sessions, handlers, served, revokedIds, issued>>

\* what a client can put into the Authorization header
Credentials ==
    sessions
        \cup {Jwt("u1", MaxClock, "forged"), [kind |-> "none"], [kind |-> "basic"]}
        \cup {Bearer(raw) : raw \in 1..MaxIssued}

AuthFrame ==
    UNCHANGED <<idxVars, now, pubVars, saveVars, delVars, callLog, docVars, recVars,
                raceVars>>

AuthNext ==
    \/ \E c \in Callers, cred \in Credentials : AuthMiddleware(c, cred) /\ AuthFrame
    \/ \E c \in Callers : AuthUser(c) /\ AuthFrame
    \/ \E c \in Callers : ListTokens(c) /\ AuthFrame
    \/ \E c \in Callers, bound \in BOOLEAN : CreateToken(c, bound) /\ AuthFrame
    \/ \E c \in Callers, id \in 1..MaxIssued : RefreshTokenFind(c, id) /\ AuthFrame
    \/ \E c \in Callers : RefreshTokenSave(c) /\ AuthFrame
    \/ \E c \in Callers, id \in 1..MaxIssued : RevokeToken(c, id) /\ AuthFrame
    \/ \E u \in UserIds : Login(u) /\ AuthFrame
    \/ \E u \in UserIds, b \in BOOLEAN : SetActive(u, b) /\ AuthFrame
    \/ Tick /\ UNCHANGED <<pubVars, sideVars>>

AuthInit ==
    /\ mappings = <<>>
    /\ persisted = <<>>
    /\ now = 0
    /\ lastOp = NoOp
    /\ settings = BaseSettings
    /\ PubIdle
    /\ SideIdle

\* requests of two clients against the backend
SpecAuth == AuthInit /\ [][AuthNext]_vars

----------------------------------------------------------------------------
(* Properties *)

\* the storage (directly, or through the relay) accepted the upload of p
Succeeded(p) ==
    \/ calls[p].dOut = "200"
    \/ calls[p].dOut = "error" /\ calls[p].rOut = "ok"

Holds(list, localPath) == \E k \in 1..Len(list) : list[k].localPath = localPath

InputPaths == [j \in 1..Len(filesToUpload) |-> filesToUpload[j].localPath]

\* C1: while a document is processed, a local path for which the index holds a
\* record causes no network call (no fetch of the file, no direct PUT, no relay
\* request), and once the path has been handled the asset list holds that very
\* record, with its recorded URL; when a document references one such path and
\* one new path whose upload succeeds, exactly one upload was made and the
\* list holds both records.
C1_IdempotentSkip ==
    pc \in {"scan", "upload", "direct", "relay", "api"} =>
        /\ \A i \in 1..Len(paths) :
              LET r == findAssetByLocalPath(mappings, paths[i])
              IN  r # NoAsset =>
                    /\ calls[paths[i]].fetch = 0
                    /\ calls[paths[i]].direct = 0
                    /\ calls[paths[i]].relay = 0
                    /\ (pc # "scan" \/ i < idx) =>
                          \E k \in 1..Len(uploadedAssets) :
                              /\ uploadedAssets[k] = r
                              /\ uploadedAssets[k].s3Url = r.s3Url
        /\ \A i, j \in 1..Len(paths) :
              ( /\ pc = "api"
                /\ Len(paths) = 2
                /\ findAssetByLocalPath(mappings, paths[i]) # NoAsset
                /\ findAssetByLocalPath(mappings, paths[j]) = NoAsset
                /\ Succeeded(paths[j]) ) =>
                    /\ calls[paths[j]].direct = 1
                    /\ calls[paths[i]].direct + calls[paths[i]].relay = 0
                    /\ Len(uploadedAssets) = 2
                    /\ Holds(uploadedAssets, paths[j])
                    /\ \E k \in 1..2 :
                          uploadedAssets[k] = findAssetByLocalPath(mappings, paths[i])

C1_Witness ==
    /\ pc = "api"
    /\ Len(paths) = 2
    /\ \E i, j \in 1..2 :
          /\ findAssetByLocalPath(mappings, paths[i]) # NoAsset
          /\ findAssetByLocalPath(mappings, paths[j]) = NoAsset
          /\ Succeeded(paths[j])
    /\ Len(uploadedAssets) = 2

\* C2: in uploadFiles every file is attempted exactly once whatever happened to
\* the files before it, the call does not fail, and the returned list holds
\* exactly the records of the files whose upload succeeded, in input order.
C2_PartialFailureTolerance ==
    /\ pc # "failed"
    /\ \A j \in 1..Len(filesToUpload) :
          calls[InputPaths[j]].attempts =
              IF pc = "api" \/ j < fidx \/ (j = fidx /\ pc # "upload") THEN 1 ELSE 0
    /\ pc = "api" =>
          /\ Len(results) + Len(errors) = Len(filesToUpload)
          /\ [k \in 1..Len(results) |-> results[k].localPath]
                 = SelectSeq(InputPaths, Succeeded)
          /\ uploadedAssets = results

C2_Witness ==
    /\ pc = "api"
    /\ Len(filesToUpload) = 3
    /\ ~Succeeded(InputPaths[1])
    /\ Succeeded(InputPaths[2])
    /\ ~Succeeded(InputPaths[3])
    /\ Len(results) = 1

\* C3: what uploadFiles returns carries one entry, a record or an error, for
\* every input file.
C3_EveryFileHasAnEntry ==
    pc = "api" =>
        \A j \in 1..Len(filesToUpload) :
            Holds(UploadFilesReturn(results, errors), InputPaths[j])

C5_RelayUrlIsDirectUrl ==
    /\ \A k \in 1..Len(results) :
          calls[results[k].localPath].rOut = "ok" =>
              results[k].s3Url = DirectResultUrl(settings.s3, results[k].s3Key)
    /\ ( /\ pc = "api"
         /\ Len(filesToUpload) = 3
         /\ calls[InputPaths[1]].dOut = "200"
         /\ calls[InputPaths[2]].dOut = "error"
         /\ calls[InputPaths[2]].rOut = "ok"
         /\ calls[InputPaths[3]].dOut = "200" ) =>
             /\ Len(results) = 3
             /\ results[2].localPath = InputPaths[2]
             /\ results[2].s3Url = DirectResultUrl(settings.s3, results[2].s3Key)

C5_Witness ==
    /\ pc = "api"
    /\ Len(filesToUpload) = 3
    /\ settings.s3.customDomain # <<>>
    /\ calls[InputPaths[1]].dOut = "200"
    /\ calls[InputPaths[2]].dOut = "error"
    /\ calls[InputPaths[2]].rOut = "ok"
    /\ calls[InputPaths[3]].dOut = "200"
    /\ Len(results) = 3

\* C6: when the direct PUT of a file fails at transport level and no kernel
\* token is configured, no relay request is sent, the file ends with an error
\* (an error event and no success event, an entry in the error list) and it is
\* absent from the result of the batch.
C6_MissingTokenIsFailure ==
    \A j \in 1..Len(filesToUpload) :
        LET p == InputPaths[j]
            name == filesToUpload[j].file.name
        IN  (calls[p].dOut = "error" /\ settings.windowToken = "") =>
                /\ calls[p].relay = 0
                /\ Holds(errors, p)
                /\ ~Holds(results, p)
                /\ ~Holds(uploadedAssets, p)
                /\ onProg =>
                      /\ \E i \in 1..Len(events) :
                            events[i].fileName = name /\ events[i].status = "error"
                      /\ \A i \in 1..Len(events) :
                            events[i].fileName = name => events[i].status # "success"

C6_Witness ==
    /\ pc = "api"
    /\ onProg
    /\ settings.windowToken = ""
    /\ \E j \in 1..Len(filesToUpload) :
          /\ calls[InputPaths[j]].dOut = "error"
          /\ Holds(errors, InputPaths[j])

HasAssets(m, docId) == MapHas(m, docId) /\ getMapping(m, docId).assets # <<>>

RemovalOps == {"removeAssetFromDoc", "removeAssets", "removeAssetsByFilter"}

\* C7: a removal (removeAssetFromDoc, removeAssets, removeAssetsByFilter) that
\* takes the last asset of a document deletes the document's mapping:
\* getMapping returns null and the persisted data has no entry for it.
C7_EmptiedMappingIsDeleted ==
    [][ lastOp'.op \in RemovalOps =>
            \A d \in DocIds :
                (HasAssets(mappings, d) /\ ~HasAssets(mappings', d)) =>
                    /\ getMapping(mappings', d) = NoMapping
                    /\ ~MapHas(persisted', d) ]_vars

C7_Witness ==
    /\ lastOp.op = "removeAssetFromDoc"
    /\ lastOp.found
    /\ mappings = <<>>
    /\ persisted = <<>>

\* C8: no mapping with an empty asset collection exists, in memory or in the
\* persisted data.
C8_NoEmptyMapping ==
    /\ \A i \in 1..Len(mappings) : mappings[i].assets # <<>>
    /\ \A i \in 1..Len(persisted) : persisted[i].assets # <<>>

\* C9: the index holds at most one mapping per document, and once createShare
\* has returned a record with share id s, a mapping of that document carries
\* s and the assets of this publish.
C9_RepublishReplacesMapping ==
    /\ \A d \in DocIds : Cardinality({ i \in 1..Len(mappings) : mappings[i].docId = d }) <= 1
    /\ pc = "done" =>
          (MapHas(mappings, doc) =>
              /\ getMapping(mappings, doc).shareId = shareId
              /\ getMapping(mappings, doc).assets = uploadedAssets)

\* C10: removeMapping(d) removes the mapping of d and removeMappingByShareId(s)
\* the mappings whose shareId is s; the mapping of every other document is
\* left as it was, and removing an absent document or share leaves the index
\* as it was.
C10_RemoveMappingFrame ==
    [][ /\ \A d \in DocIds :
              removeMapping(d) =>
                  /\ getMapping(mappings', d) = NoMapping
                  /\ \A e \in DocIds \ {d} :
                        getMapping(mappings', e) = getMapping(mappings, e)
                  /\ ~MapHas(mappings, d) => mappings' = mappings
        /\ \A sid \in ShareIds :
              removeMappingByShareId(sid) =>
                  /\ \A e \in DocIds :
                        getMapping(mappings', e) =
                            IF MapHas(mappings, e) /\ getMapping(mappings, e).shareId = sid
                            THEN NoMapping
                            ELSE getMapping(mappings, e)
                  /\ (\A i \in 1..Len(mappings) : mappings[i].shareId # sid)
                        => mappings' = mappings ]_vars

C10_Witness ==
    /\ lastOp.op = "removeMappingByShareId"
    /\ lastOp.found
    /\ Len(mappings) = 1
    /\ mappings[1].assets # <<>>

MutatingOps ==
    {"addOrUpdateMapping", "removeMapping", "removeMappingByShareId", "clearAll",
     "removeAssetFromDoc", "removeAssets", "removeAssetsByFilter"}

C12_InterleavedOpsPersistAll ==
    (\A c \in Callers : ipc[c] \in {"idle", "returned"}) => persisted = mappings

\* C13: when the write of the index fails during a mutating operation, the
\* operation reports the failure and the in-memory index is as it was before
\* the operation: with no other caller having run, it is the index that is
\* still stored.
C13_FailedSaveRollsBack ==
    \A c \in Callers :
        (ipc[c] = "thrown" /\ \A o \in Callers \ {c} : ipc[o] = "idle")
            => mappings = persisted

\* C14: when a run of createShare has ended, with or without a share, every
\* asset whose upload succeeded during the run is held by the index
\* (findAssetByLocalPath finds it).
C14_UploadedAssetIsRecorded ==
    pc \in {"done", "failed"} =>
        \A k \in 1..Len(results) :
            findAssetByLocalPath(mappings, results[k].localPath) # NoAsset

\* the answers that hold a 2xx status or 404
OkAnswers == { ToString(st) : st \in 200..299 } \cup {"404"}

\* the positions of a list of answers that hold a 2xx status or 404
OkPositions(ans) == { i \in 1..Len(ans) : ans[i] \in OkAnswers }

\* the entries of keys at the positions pos, in order
KeysAt(keys, pos) ==
    [j \in 1..Cardinality(pos) |->
        keys[CHOOSE i \in pos : Cardinality({ x \in pos : x <= i }) = j]]

\* C15: deleteFile succeeds when the remote answers 2xx or 404 and fails on
\* any other status and on a transport-level error; deleteFiles attempts every
\* key whatever happened to the keys before it, and the success list holds
\* exactly the keys answered 2xx or 404 and the failed list all the others.
C15_IdempotentDelete ==
    /\ Len(answers) = didx - 1
    /\ success = KeysAt(delKeys, OkPositions(answers))
    /\ failed = KeysAt(delKeys, (1..Len(answers)) \ OkPositions(answers))
    /\ didx > Len(delKeys) =>
          /\ Len(answers) = Len(delKeys)
          /\ Len(success) + Len(failed) = Len(delKeys)

C15_Witness ==
    /\ didx > Len(delKeys)
    /\ answers = <<"500", "404", "error">>
    /\ success = <<delKeys[2]>>
    /\ failed = <<delKeys[1], delKeys[3]>>

\* C16: a file whose in-flight upload was cancelled ends in a status of its
\* own, not in the error status: no error event is reported for it, it is not
\* listed among the failed files, and it is not tried again.
C16_CancelIsNotAnError ==
    \A j \in 1..Len(filesToUpload) :
        LET p == InputPaths[j]
            name == filesToUpload[j].file.name
        IN  calls[p].dOut = "abort" =>
                /\ calls[p].attempts = 1
                /\ calls[p].relay = 0
                /\ ~Holds(errors, p)
                /\ \A i \in 1..Len(events) :
                      events[i].fileName = name => events[i].status # "error"

\* C17: once the cancellation of a batch has reached the transport operation
\* of the file in flight (its request is aborted), no relay request is made
\* for that file and no further file of the batch is started.
C17_CancelStopsBatch ==
    \A j \in 1..Len(filesToUpload) :
        calls[InputPaths[j]].dOut = "abort" =>
            /\ calls[InputPaths[j]].relay = 0
            /\ \A k \in (j + 1)..Len(filesToUpload) :
                  calls[InputPaths[k]].attempts = 0

\* the files with a direct or a relay request sent and not yet answered
InFlight ==
    { p \in AllPaths : \/ calls[p].direct >= 1 /\ calls[p].dOut = "none"
                       \/ calls[p].relay >= 1 /\ calls[p].rOut = "none" }

\* C18: within one batch at most one file has a transport operation (direct
\* or relay) in flight, and the upload of file i+1 is not started before file
\* i has ended, with a record or with an error.
C18_OneFileAtATime ==
    /\ Cardinality(InFlight) <= 1
    /\ \A j \in 1..(Len(filesToUpload) - 1) :
          calls[InputPaths[j + 1]].attempts >= 1 =>
              /\ InputPaths[j] \notin InFlight
              /\ Holds(results, InputPaths[j]) \/ Holds(errors, InputPaths[j])

C18_Witness ==
    /\ Len(filesToUpload) = 3
    /\ fidx = 3
    /\ pc = "relay"
    /\ InFlight = {InputPaths[3]}
    /\ Holds(errors, InputPaths[1])
    /\ Holds(results, InputPaths[2])

\* the statuses reported for a file, in order
StatusesOf(name) ==
    LET evs == SelectSeq(events, LAMBDA e : e.fileName = name)
    IN  [i \in 1..Len(evs) |-> evs[i].status]

\* C19: the statuses reported for a file are pending, then uploading one or
\* more times, then one terminal status (success or error) and nothing after
\* it, on the direct path and on the relay path; a file that has ended after
\* passing the configuration check has its terminal status reported.
C19_PerFileStateMachine ==
    onProg =>
        \A j \in 1..Len(filesToUpload) :
            LET st == StatusesOf(filesToUpload[j].file.name)
                ended == Holds(results, InputPaths[j]) \/ Holds(errors, InputPaths[j])
            IN  /\ Len(st) >= 1 => st[1] = "pending"
                /\ Len(st) >= 2 => st[2] = "uploading"
                /\ \A i \in 2..Len(st) : st[i] \in {"uploading", "success", "error"}
                /\ \A i \in 1..Len(st) : st[i] \in {"success", "error"} => i = Len(st)
                /\ (ended /\ validateConfig(settings.s3)) =>
                      /\ Len(st) >= 3
                      /\ st[Len(st)] = IF Holds(results, InputPaths[j])
                                        THEN "success" ELSE "error"

\* C20: a record is reused only for a blob of the recorded size: for every
\* blob that may be the one processed, the record findAssetByHash returns for
\* its fingerprint, and the record the dedup check by local path reuses, has
\* the size of that blob.
C20_DifferentSizeNeverSameAsset ==
    \A c \in Contents :
        /\ LET r == findAssetByHash(mappings, calculateFileHash(MkFile(PA, c, "")))
           IN  r # NoAsset => r.size = ByteLength(c)
        /\ \A p \in LocalPaths :
              IsAlreadyUploaded(mappings, p) =>
                  findAssetByLocalPath(mappings, p).size = ByteLength(c)

\* storage disabled, or one of endpoint, region, bucket, access key id and
\* secret key missing
ConfigIncomplete(c) ==
    \/ ~c.enabled
    \/ c.endpoint = <<>>
    \/ c.region = ""
    \/ c.bucket = <<>>
    \/ c.accessKeyId = ""
    \/ c.secretAccessKey = ""

\* C21: under a disabled or incomplete configuration uploadFile and
\* deleteFile fail without a direct or relay request, without a DELETE
\* request and without a progress event: every file tried is among the
\* errors, every key tried among the failed ones, and the batch returns no
\* record.
C21_ConfigErrorBeforeNetwork ==
    ConfigIncomplete(settings.s3) =>
        /\ \A p \in AllPaths : calls[p].direct = 0 /\ calls[p].relay = 0
        /\ events = <<>>
        /\ results = <<>>
        /\ uploadedAssets = <<>>
        /\ \A j \in 1..Len(filesToUpload) :
              calls[InputPaths[j]].attempts >= 1 => Holds(errors, InputPaths[j])
        /\ \A i \in 1..Len(answers) : answers[i] = "none"
        /\ success = <<>>
        /\ failed = SubSeq(delKeys, 1, Len(answers))

C21_Witness ==
    /\ settings.s3.enabled
    /\ settings.s3.bucket = <<>>
    /\ onProg
    /\ pc = "api"
    /\ Len(filesToUpload) = 3
    /\ Len(errors) = 3

SignerCalls ==
    { i \in 1..Len(callLog) : callLog[i].fn = "generateSignedHeaders" }

\* the tokens of a text between the token after position i and the next line
\* feed
RECURSIVE UpToLineFeed(_, _)
UpToLineFeed(text, i) ==
    IF i > Len(text) \/ text[i] = "\n" THEN <<>>
    ELSE <<text[i]>> \o UpToLineFeed(text, i + 1)

HeaderNames ==
    {"host:", "x-amz-content-sha256:", "x-amz-date:", "content-length:", "content-type:"}

RECURSIVE Rewritten(_, _)
Rewritten(s, assets) ==
    LET j == MinPos({ i \in 1..Len(s) :
                        \E k \in 1..Len(assets) : MatchAt(s, i, assets[k].localPath) })
    IN  IF j = 0 THEN s
        ELSE LET m == { k \in 1..Len(assets) : MatchAt(s, j, assets[k].localPath) }
                 a == CHOOSE k \in m : \A l \in m : Len(assets[l].localPath)
                                                      <= Len(assets[k].localPath)
             IN  SubSeq(s, 1, j - 1) \o assets[a].s3Url
                     \o Rewritten(SubSeq(s, j + Len(assets[a].localPath), Len(s)), assets)

\* C24: in the content returned by processAndUploadAssets every image
\* reference, every link reference and every bare occurrence of the local
\* path of a returned asset is replaced by the URL of exactly that asset and
\* all other text is unchanged, also when one referenced path is a substring
\* of another.
C24_RewritingCompleteAndExact ==
    pc = "rewritten" => processedContent = Rewritten(docContent, uploadedAssets)

\* C25: any two successful uploads produce distinct remote keys; each key is
\* pathPrefix/unixMillis-contentHash+extension and uploadedAt is the
\* unixMillis of the key.
C25_UploadsGetDistinctKeys ==
    /\ \A i, j \in 1..Len(results) : i # j => results[i].s3Key # results[j].s3Key
    /\ \A i \in 1..Len(results) :
           results[i].s3Key = S3Key(settings.s3, results[i].uploadedAt, results[i].hash,
                                    getFileExtension(results[i].localPath))

\* C26: after deleteShare or deleteShares succeeded for share id s the index
\* holds no mapping whose shareId is s, and neither findAssetByLocalPath nor
\* findAssetByHash returns an asset from a mapping of s.
C26_RevokedShareLosesAssets ==
    (lastOp.op \in {"deleteShare", "deleteShares"} /\ lastOp.ok) =>
        \A s \in lastOp.revoked :
            /\ \A i \in 1..Len(mappings) : mappings[i].shareId # s
            /\ \A a \in SampleAssets :
                   (\/ findAssetByLocalPath(mappings, a.localPath) = a
                    \/ findAssetByHash(mappings, a.hash) = a)
                       => \E i \in 1..Len(mappings) :
                              /\ mappings[i].shareId # s
                              /\ a \in Range(mappings[i].assets)

HashCalls ==
    { i \in 1..Len(callLog) : callLog[i].fn = "calculateFileHash" }

Entries(m) ==
    UNION { { <<m[i].docId, m[i].assets[k]>> : k \in 1..Len(m[i].assets) }
            : i \in 1..Len(m) }

\* C28: removeAssetsByFilter(f) removes exactly the (document, asset) entries
\* for which f(asset, docId) is true and leaves every other entry in place,
\* and returns exactly the keys of the removed entries, also when two
\* documents hold the same key and f selects it in one of them.
C28_FilterRemovesExactlyMatches ==
    [][ \A f \in Filters :
            removeAssetsByFilter(f) =>
                /\ Entries(mappings')
                      = { e \in Entries(mappings) : ~ApplyFilter(f, e[2], e[1]) }
                /\ Range(ToRemove(mappings, f))
                      = { e[2].s3Key : e \in Entries(mappings) \ Entries(mappings') }
      ]_vars

\* C29: removeAssets(keys) returns the number of asset entries it removed
\* over all documents; afterwards no asset with a key of keys is left, every
\* other entry and every mapping without a match is as before (updatedAt
\* included), and when nothing matched the index is neither changed nor
\* written.
C29_RemoveAssetsByKey ==
    [][ \A ks \in SUBSET SampleKeys :
            removeAssets(ks) =>
                LET hit == { e \in Entries(mappings) : e[2].s3Key \in ks }
                IN  /\ lastOp'.removed = Cardinality(hit)
                    /\ Entries(mappings') = Entries(mappings) \ hit
                    /\ \A i \in 1..Len(mappings) :
                           (\A k \in 1..Len(mappings[i].assets) :
                                mappings[i].assets[k].s3Key \notin ks)
                               => mappings[i] \in Range(mappings')
                    /\ hit = {} => mappings' = mappings /\ persisted' = persisted
      ]_vars

C29_Witness ==
    /\ lastOp.op = "removeAssets"
    /\ lastOp.removed = 2
    /\ Len(mappings) = 1
    /\ Len(mappings[1].assets) = 1
    /\ persisted = mappings

\* what load() leaves in a new AssetRecordManager
FreshLoad(data) == LoadInto(<<>>, data)

\* C30: the index written by an operation, loaded into a new
\* AssetRecordManager, gives the mappings of the index that wrote it, this
\* stays so over every later operation, and load keeps one mapping per
\* document id also when the stored data holds two for one document.
C30_PersistLoadRoundTrip ==
    [][ /\ (lastOp'.op \in MutatingOps /\ mappings' # mappings)
              => Range(FreshLoad(persisted')) = Range(mappings')
        /\ Range(FreshLoad(persisted)) = Range(mappings)
              => Range(FreshLoad(persisted')) = Range(mappings')
        /\ lastOp'.op = "load"
              => /\ \A i, j \in 1..Len(mappings') :
                        mappings'[i].docId = mappings'[j].docId => i = j
                 /\ Range(FreshLoad(persisted')) = Range(mappings') ]_vars

C30_Witness ==
    /\ lastOp.op = "load"
    /\ Len(persisted) = 2
    /\ persisted[1].docId = persisted[2].docId
    /\ mappings = <<persisted[2]>>

\* C31: a relay upload succeeds, with a record, if and only if the relay
\* answered with a successful HTTP status and a JSON envelope whose code is
\* zero; every other answer makes the file fail without a record.
C31_RelaySuccessNeedsZeroCode ==
    [][ \A ans \in RelayAnswers :
            RelayAnswer(ans) =>
                ( (Len(results') = Len(results) + 1 /\ Len(errors') = Len(errors))
                    <=> (ans.kind = "response" /\ ans.ok /\ ans.json /\ ans.code = "0") )
      ]_vars

\* C32: the content type and the date in the string-to-sign of the OSS
\* signer are the values of the returned Content-Type and Date headers, for
\* PUT and DELETE and for every content type, the empty one included.
C32_OssSignsWhatItSends ==
    \A i \in 1..Len(callLog) :
        callLog[i].fn = "generateOssHeaders" =>
            LET e == callLog[i]
            IN  /\ <<e.stringToSign[5]>> = e.out["Content-Type"]
                /\ UpToLineFeed(e.stringToSign, 7) = e.out["Date"]

\* C33: when two publishes that reference the same local path, not uploaded
\* before, run concurrently, the path is uploaded at most once and both
\* publishes end with the same record for it.
C33_ConcurrentPublishUploadsOnce ==
    /\ Cardinality({ c \in Callers : publishers[c].uploaded }) <= 1
    /\ \A c1, c2 \in Callers :
           ( /\ publishers[c1].pc = "done" /\ publishers[c2].pc = "done"
             /\ publishers[c1].assets # <<>> /\ publishers[c2].assets # <<>> )
               => publishers[c1].assets = publishers[c2].assets

\* the references of a text (image, link or img tag) whose path is p
RefsTo(s, p) ==
    { <<pass, i>> \in {"image", "link", "html"} \X (1..Len(s)) : CaptureOf(pass, s, i) = p }

\* C34: when some files fail, the content handed on for the share API has
\* only the references of the uploaded or skipped assets rewritten: every
\* reference to a path that is not in the returned asset list is as in the
\* exported content, and every listed asset is a skipped or an uploaded one.
C34_FailedAssetsStayUnrewritten ==
    pc = "rewritten" =>
        /\ \A k \in 1..Len(uploadedAssets) :
               \E i \in 1..Len(paths) : paths[i] = uploadedAssets[k].localPath
        /\ \A i \in 1..Len(paths) :
               (\A k \in 1..Len(uploadedAssets) : uploadedAssets[k].localPath # paths[i])
                   => Cardinality(RefsTo(processedContent, paths[i]))
                          = Cardinality(RefsTo(docContent, paths[i]))

\* C35: deleteShare(id) removes the local share record if and only if the
\* backend answered 2xx or 404; on any other status, or when the server is
\* not configured, it fails and every local record stays as it was.
C35_DeleteShareRemovesOn2xxOr404 ==
    [][\A sid \in ShareIds, status \in {200, 404, 500} :
          deleteShare(sid, status) =>
              LET gone == /\ ~NotConfigured(settings)
                          /\ (status \in 200..299 \/ status = 404)
              IN  /\ gone => /\ shareRecords' = shareRecords \ {sid}
                             /\ lastOp'.ok
                  /\ ~gone => /\ shareRecords' = shareRecords
                              /\ ~lastOp'.ok
                              /\ mappings' = mappings
                              /\ persisted' = persisted]_vars

C35_Witness ==
    /\ lastOp.op = "deleteShare"
    /\ lastOp.ok
    /\ lastOp.revoked = {"s1"}
    /\ shareRecords = {"s2"}

\* C36: deleteShares called with a list of share ids removes from the local
\* records exactly the ids the backend reported as deleted or not found and
\* keeps the others; the records are cleared entirely only by a call without
\* an id list; on a backend error nothing local changes.
C36_DeleteSharesRemovesReported ==
    [][\A given \in BOOLEAN, sids \in SUBSET ShareIds, status \in {200, 500},
         code \in {0, 1}, deleted \in SUBSET ShareIds, notFound \in SUBSET ShareIds :
          deleteShares(given, sids, status, code, deleted, notFound) =>
              LET refused == \/ NotConfigured(settings)
                             \/ status \notin 200..299
                             \/ code # 0
              IN  /\ refused => /\ shareRecords' = shareRecords
                                /\ ~lastOp'.ok
                  /\ (~refused /\ given) =>
                         shareRecords' = shareRecords \ (deleted \cup notFound)
                  /\ (~refused /\ ~given) => shareRecords' = {}]_vars

\* C37: every request that passes AuthMiddleware, by session JWT or by API
\* token, is attributed to a user that is active at that moment; the
\* credentials of a deactivated user never reach the handler.
C37_PassedRequestsHaveActiveUser ==
    [][\A c \in Callers :
          (handlers[c].pc # "next" /\ handlers'[c].pc = "next") =>
              users[handlers'[c].userID].isActive]_vars

\* C38: revocation is permanent: once RevokeToken answered 200 for a token,
\* the token stays revoked whatever CreateToken, RefreshToken and RevokeToken
\* calls follow, and no request that starts later with that token gets past
\* the token lookup of AuthMiddleware; RevokeToken for a token that is
\* already revoked, or is another user's, answers 404 and changes no row.
C38_RevocationIsPermanent ==
    [][/\ \A id \in revokedIds' : userTokens'[id].revoked
       /\ \A c \in Callers :
              (handlers[c].pc = "idle" /\ handlers'[c].pc = "user") =>
                  handlers'[c].ut.id \notin revokedIds
       /\ \A c \in Callers, id \in 1..MaxIssued :
              (RevokeToken(c, id) /\ ~OwnLiveToken(userTokens, id, handlers[c].userID))
                  => /\ served'.status = 404
                     /\ userTokens' = userTokens]_vars

\* C39: when RefreshToken answers 200 the caller owns the token and the token
\* is not revoked; from then on the previous plaintext finds no token and
\* the returned plaintext finds the token under the same id and user; a
\* RefreshToken that answers 404 leaves every row as it was.
C39_RefreshReplacesPlaintext ==
    [][\A c \in Callers :
          /\ RefreshTokenSave(c) =>
                 LET row == userTokens[handlers[c].ut.id]
                     found == TokenByHash(userTokens', hashToken(Bearer(issued')))
                 IN  /\ row.userId = handlers[c].userID
                     /\ ~row.revoked
                     /\ "none" \in DOMAIN TokenByHash(userTokens', row.tokenHash)
                     /\ "none" \notin DOMAIN found
                     /\ found.id = row.id
                     /\ found.userId = row.userId
          /\ \A id \in 1..MaxIssued :
                 (RefreshTokenFind(c, id) /\ handlers'[c].pc = "idle")
                     => /\ served'.status = 404
                        /\ userTokens' = userTokens]_vars
====
